---------------------------- MODULE Spec2Model ----------------------------
(***************************************************************************)
(* Kinematics, inverse-kinematics solver and motion-command lifecycle of   *)
(* src/src/components/LxvInteractivePreview.tsx.                           *)
(*                                                                         *)
(* Units.  Angles are integers in micro-radians, lengths integers in       *)
(* micro-metres, so that every constant of the source is an integer.       *)
(* Ratios below one (gain, weights, retry scales) are kept as integer      *)
(* numerators over the denominator named beside them.  Divisions truncate  *)
(* toward zero.                                                            *)
(***************************************************************************)
EXTENDS Integers, Sequences, FiniteSets, TLC

(***************************************************************************)
(* Bounds of the model (not program constants).                            *)
(***************************************************************************)
\* requested angles of the joint-level specification range over -MaxAngle..MaxAngle
MaxAngle == 3
\* handler runs that change the joint angles, per behaviour
MaxMoves == 1
\* intervals the window keeps alive at once
MaxTimers == 2
\* <joint> elements of a sampled document
MaxJoints == 2
\* <visual> elements of the root link of a sampled document
MaxVisuals == 2

(***************************************************************************)
(* Program constants (LxvInteractivePreview.tsx lines 71-111).             *)
(***************************************************************************)
END_EFFECTOR_LINK == "fr3_hand_tcp"
\* 0.014 m
TRANSLATION_STEP_METERS == 14000
\* degToRad(6) = 0.104720 rad
YAW_STEP_RADIANS == 104720
\* 0.45, over ScaleDen
PAD_HOLD_STEP_SCALE == 450
\* stepScale = 1 (default parameter of executePadCommand), over ScaleDen
PAD_FULL_STEP_SCALE == 1000
ScaleDen == 1000
PAD_COMMAND_RETRY_SCALES == <<1000, 650, 400>>
TRAJECTORY_X_AMPLITUDE_METERS == 22000
TRAJECTORY_Y_AMPLITUDE_METERS == 16000
TRAJECTORY_Z_AMPLITUDE_METERS == 10000
\* degToRad(8) = 0.139626 rad
TRAJECTORY_YAW_AMPLITUDE_RADIANS == 139626
TRAJECTORY_TARGET_RETRY_SCALES == <<1000, 700, 450>>
TRAJECTORY_MAX_CONSECUTIVE_FAILURES == 14

IK_MAX_ITERATIONS == 32
\* 1e-4 rad
IK_JACOBIAN_EPSILON == 100
\* 1.2e-3 m
IK_POSITION_TOLERANCE == 1200
\* degToRad(1.5) = 0.0261799 rad, in tenths of a micro-radian (over RotTolDen)
IK_ROTATION_TOLERANCE == 261799
RotTolDen == 10
\* 0.3, in tenths
IK_ROTATION_WEIGHT == 3
WeightDen == 10
\* 0.22, in hundredths
IK_GAIN == 22
GainDen == 100
\* degToRad(5) = 0.0872665 rad
IK_MAX_JOINT_DELTA == 87266
\* the factor of the final, relaxed check (IK_POSITION_TOLERANCE * 2)
IK_FINAL_RELAX == 2
\* the factor of the convergence check inside the iteration
IK_NO_RELAX == 1
\* pi, for the principal value of a rotation angle
PI_RADIANS == 3141593

\* FR3_HOME_ANGLES: -pi/4, -3pi/4, pi/2, pi/4
HomeNames ==
    {"fr3_joint1", "fr3_joint2", "fr3_joint3", "fr3_joint4",
     "fr3_joint5", "fr3_joint6", "fr3_joint7"}
FR3_HOME_ANGLES ==
    [n \in HomeNames |->
        CASE n = "fr3_joint2" -> -785398
          [] n = "fr3_joint4" -> -2356194
          [] n = "fr3_joint6" -> 1570796
          [] n = "fr3_joint7" -> 785398
          [] OTHER -> 0]

(***************************************************************************)
(* Optional values (number | null): the empty tuple is null.               *)
(***************************************************************************)
Null == <<>>
Some(v) == <<v>>

Abs(x) == IF x < 0 THEN -x ELSE x
Sign(x) == IF x < 0 THEN -1 ELSE IF x > 0 THEN 1 ELSE 0
Max2(a, b) == IF a >= b THEN a ELSE b
Min2(a, b) == IF a <= b THEN a ELSE b
\* a / d truncated toward zero
Quot(a, d) == Sign(a) * (Abs(a) \div d)
\* a * b / d truncated toward zero, without forming a * b
MulDiv(a, b, d) ==
    Sign(a) * Sign(b) *
        ((Abs(a) \div d) * Abs(b) + ((Abs(a) % d) * Abs(b)) \div d)
\* a clamped to [lo, hi] (THREE.MathUtils.clamp)
Clamp(a, lo, hi) == Max2(lo, Min2(hi, a))

(***************************************************************************)
(* State.                                                                  *)
(***************************************************************************)
VARIABLES
    urdfText,                           \* the description document fetched by the load
    loadState,                          \* "pending" | "resolved" | "rejected": the load promise
    disposed,                           \* the scene effect's `disposed` flag
    loadedRobotRef,                     \* TRUE iff loadedRobotRef.current is a LoadedRobot
    controlChain,                       \* loadedRobot.controlChain: Seq of JointControl
    activePadCommandRef,                \* a PadCommandKey or "null"
    holdIntervalRef,                    \* interval id, 0 for null
    trajectoryIntervalRef,              \* interval id, 0 for null
    trajectoryBasePoseRef,              \* Null or <<pose>>
    trajectoryConsecutiveFailuresRef,
    controlsEnabled,
    trajectoryRunning,
    padStatusText,
    timers,                             \* the window's live intervals: set of [id, kind]
    startAngles,                        \* joint-level specification: the snapshot taken
    lastEvent,                          \* the handler that ran last
    lastArg,                            \* joint-level specification: the angle last requested
    ranSolve,                           \* the last handler ran a motion request
    lastSolved,                         \* ... and that request's result
    clearedKinds,                       \* kinds of the intervals the last handler cleared
    callArgs,                           \* function-level specifications: the input drawn
    callResult,                         \* ... and what the function last applied returned
    moves                               \* handler runs that changed the joint angles

vars ==
    <<urdfText, loadState, disposed, loadedRobotRef, controlChain,
      activePadCommandRef, holdIntervalRef, trajectoryIntervalRef,
      trajectoryBasePoseRef, trajectoryConsecutiveFailuresRef, controlsEnabled,
      trajectoryRunning, padStatusText, timers, startAngles, lastEvent, lastArg,
      ranSolve, lastSolved, clearedKinds, callArgs, callResult, moves>>

(***************************************************************************)
(* Joint angle clamping (lines 358-379).                                   *)
(***************************************************************************)
\* mutant: the upper bound is applied before the lower bound
clampJointAngleLowerLast(joint, angle) ==
    IF joint.type = "continuous" THEN angle
    ELSE LET a1 == IF joint.upperLimit # Null
                   THEN Min2(angle, joint.upperLimit[1]) ELSE angle
         IN  IF joint.lowerLimit # Null THEN Max2(a1, joint.lowerLimit[1]) ELSE a1

\* mutant: the continuous pass-through is missing
clampJointAngleNoContinuous(joint, angle) ==
    LET a1 == IF joint.lowerLimit # Null
              THEN Max2(angle, joint.lowerLimit[1]) ELSE angle
    IN  IF joint.upperLimit # Null THEN Min2(a1, joint.upperLimit[1]) ELSE a1

\* mutant: an angle above the upper limit is pulled back by one unit instead of
\* being set to the limit
clampJointAngleStepBack(joint, angle) ==
    IF joint.type = "continuous" THEN angle
    ELSE LET a1 == IF joint.lowerLimit # Null
                   THEN Max2(angle, joint.lowerLimit[1]) ELSE angle
         IN  IF joint.upperLimit # Null /\ a1 > joint.upperLimit[1]
             THEN a1 - 1 ELSE a1

clampJointAngle(joint, angle) ==
    IF joint.type = "continuous" THEN angle
    ELSE LET a1 == IF joint.lowerLimit # Null
                   THEN Max2(angle, joint.lowerLimit[1]) ELSE angle
         IN  IF joint.upperLimit # Null THEN Min2(a1, joint.upperLimit[1]) ELSE a1

\* setJointAngle(joint, angle): the joint with its angle (and motion rotation) set
setJointAngle(joint, angle) ==
    [joint EXCEPT !.angle = clampJointAngle(joint, angle)]

\* the chain with setJointAngle applied to its index-th joint
SetChainAngle(chain, index, angle) ==
    [chain EXCEPT ![index] = setJointAngle(chain[index], angle)]

snapshotJointAngles(chain) == [i \in 1..Len(chain) |-> chain[i].angle]

RECURSIVE RestoreFrom(_, _, _)
RestoreFrom(chain, jointAngles, index) ==
    IF index > Len(chain) THEN chain
    ELSE IF index > Len(jointAngles)
         THEN RestoreFrom(chain, jointAngles, index + 1)
         ELSE RestoreFrom(SetChainAngle(chain, index, jointAngles[index]),
                          jointAngles, index + 1)

restoreJointAngles(chain, jointAngles) == RestoreFrom(chain, jointAngles, 1)


(***************************************************************************)
(* Forward kinematics (getWorldPose, lines 390-395).  The scene graph      *)
(* composes the joint rotations; the model takes chains whose joint axes   *)
(* coincide with the hand frame's z axis.  Each joint turns the hand about *)
(* that axis by its angle, and a joint with a non-zero pitch also carries  *)
(* the hand along the axis by `pitch` metres per radian (the first-order   *)
(* travel at the end of a lever arm of that length).  The hand             *)
(* never leaves the axis, so a pose is its height z along the axis and its *)
(* yaw about it; rotating by the yaw leaves the axis fixed, so a           *)
(* hand-frame translation (x, y, z) asks for height + z and for a distance *)
(* |(x, y)| off the axis.                                                  *)
(***************************************************************************)
RECURSIVE SumZ(_, _)
SumZ(chain, index) ==
    IF index > Len(chain) THEN 0
    ELSE chain[index].pitch * chain[index].angle + SumZ(chain, index + 1)

RECURSIVE SumYaw(_, _)
SumYaw(chain, index) ==
    IF index > Len(chain) THEN 0
    ELSE chain[index].angle + SumYaw(chain, index + 1)

getWorldPose(chain) == [z |-> SumZ(chain, 1), yaw |-> SumYaw(chain, 1)]

\* quaternionToRotationVector (lines 412-429): the rotation angle about z taken in
\* [-pi, pi), the sign of w normalised
quaternionToRotationVector(angle) ==
    ((angle + PI_RADIANS) % (2 * PI_RADIANS)) - PI_RADIANS

\* orientationError (lines 431-434): rotation vector of current^-1 * target
orientationError(currentYaw, targetYaw) ==
    quaternionToRotationVector(targetYaw - currentYaw)

\* length of the hand-plane part (x, y) of a translation; the commands and the
\* sampled trajectory phases have at most one of the two non-zero
HandPlaneNorm(x, y) == Abs(x) + Abs(y)

(***************************************************************************)
(* solveIkStep (lines 436-531).  A target is [z, yaw, res]: height, yaw,   *)
(* and the distance of the target position off the axis.                   *)
(***************************************************************************)
\* positionError and rotationError of lines 451-452
PoseError(currentPose, target) ==
    [z |-> target.z - currentPose.z,
     res |-> target.res,
     rot |-> orientationError(currentPose.yaw, target.yaw)]

\* positionError.length() <= IK_POSITION_TOLERANCE * factor and
\* rotationError.length() <= IK_ROTATION_TOLERANCE * factor
WithinTolerance(err, factor) ==
    /\ err.res <= IK_POSITION_TOLERANCE * factor
    /\ Abs(err.z) <= IK_POSITION_TOLERANCE * factor
    /\ err.res * err.res + err.z * err.z
         <= (IK_POSITION_TOLERANCE * factor) * (IK_POSITION_TOLERANCE * factor)
    /\ Abs(err.rot) * RotTolDen <= IK_ROTATION_TOLERANCE * factor

\* mutant: the column is taken by a backward difference, angle - epsilon
JacobianProbeBackward(chain, currentPose, err, index) ==
    [delta |->
        MulDiv(currentPose.z
                  - getWorldPose(SetChainAngle(chain, index,
                                               chain[index].angle
                                                  - IK_JACOBIAN_EPSILON)).z,
               err.z, IK_JACOBIAN_EPSILON)
        + Quot(IK_ROTATION_WEIGHT * IK_ROTATION_WEIGHT *
                  MulDiv(orientationError(
                             getWorldPose(SetChainAngle(chain, index,
                                                        chain[index].angle
                                                           - IK_JACOBIAN_EPSILON)).yaw,
                             currentPose.yaw),
                         err.rot, IK_JACOBIAN_EPSILON),
               WeightDen * WeightDen),
     perturbedAngle |-> setJointAngle(chain[index],
                                      chain[index].angle - IK_JACOBIAN_EPSILON).angle,
     chain |-> chain]

\* mutant: the probed joint is left at its perturbed angle
JacobianProbeNoRestore(chain, currentPose, err, index) ==
    [delta |-> 0,
     perturbedAngle |-> setJointAngle(chain[index],
                                      chain[index].angle + IK_JACOBIAN_EPSILON).angle,
     chain |-> SetChainAngle(chain, index, chain[index].angle + IK_JACOBIAN_EPSILON)]

\* lines 472-501: the Jacobian column of joint `index` by finite difference, its
\* dot product with the weighted error, and the chain after the probe is undone
JacobianProbe(chain, currentPose, err, index) ==
    LET originalAngle == chain[index].angle
        perturbed == SetChainAngle(chain, index, originalAngle + IK_JACOBIAN_EPSILON)
        perturbedPose == getWorldPose(perturbed)
        \* positionColumn . positionError (the x and y columns are zero)
        positionTerm ==
            MulDiv(perturbedPose.z - currentPose.z, err.z, IK_JACOBIAN_EPSILON)
        \* rotationColumn . rotationError, each weighted by IK_ROTATION_WEIGHT
        rotationTerm ==
            Quot(IK_ROTATION_WEIGHT * IK_ROTATION_WEIGHT *
                    MulDiv(orientationError(currentPose.yaw, perturbedPose.yaw),
                           err.rot, IK_JACOBIAN_EPSILON),
                 WeightDen * WeightDen)
    IN  [delta |-> positionTerm + rotationTerm,
         perturbedAngle |-> perturbed[index].angle,
         chain |-> SetChainAngle(perturbed, index, originalAngle)]

RECURSIVE JacobianLoop(_, _, _, _, _)
JacobianLoop(chain, currentPose, err, index, jointDeltas) ==
    IF index > Len(chain) THEN [chain |-> chain, jointDeltas |-> jointDeltas]
    ELSE LET probe == JacobianProbe(chain, currentPose, err, index)
         IN  JacobianLoop(probe.chain, currentPose, err, index + 1,
                          Append(jointDeltas, probe.delta))

\* mutant: the gain-scaled update is clamped to twice the per-iteration step
StepDeltaDoubleStep(jointDelta) ==
    Clamp(MulDiv(jointDelta, IK_GAIN, GainDen),
          -2 * IK_MAX_JOINT_DELTA, 2 * IK_MAX_JOINT_DELTA)

\* lines 505-509: the gain-scaled update clamped to the per-iteration step
StepDelta(jointDelta) ==
    Clamp(MulDiv(jointDelta, IK_GAIN, GainDen),
          -IK_MAX_JOINT_DELTA, IK_MAX_JOINT_DELTA)

\* lines 503-518: apply the updates; moved iff some joint's angle changed
RECURSIVE UpdateLoop(_, _, _, _)
UpdateLoop(chain, jointDeltas, index, movedAnyJoint) ==
    IF index > Len(chain) THEN [chain |-> chain, movedAnyJoint |-> movedAnyJoint]
    ELSE LET previousAngle == chain[index].angle
             next == SetChainAngle(chain, index,
                                   previousAngle + StepDelta(jointDeltas[index]))
         IN  UpdateLoop(next, jointDeltas, index + 1,
                        movedAnyJoint \/ next[index].angle # previousAngle)

\* mutant: a pass that moved no joint does not end the loop
IkPassNeverStalls(st, target) ==
    IF WithinTolerance(PoseError(getWorldPose(st.chain), target), IK_NO_RELAX)
    THEN [st EXCEPT !.outcome = "converged"]
    ELSE [chain |-> UpdateLoop(st.chain,
                               JacobianLoop(st.chain, getWorldPose(st.chain),
                                            PoseError(getWorldPose(st.chain), target),
                                            1, <<>>).jointDeltas,
                               1, FALSE).chain,
          updates |-> st.updates + 1,
          probes |-> st.probes + Len(st.chain),
          outcome |-> "moved"]

\* One pass of the loop body (lines 449-522) from the loop state st: the chain, the
\* passes that updated the joints so far, the Jacobian columns probed so far (one
\* per round of the loop of line 472), and how the last pass ended ("moved": the
\* loop goes on; "converged": line 458 returned; "stalled": line 521 broke).
IkPass(st, target) ==
    LET currentPose == getWorldPose(st.chain)
        err == PoseError(currentPose, target)
    IN  IF WithinTolerance(err, IK_NO_RELAX)
        THEN [st EXCEPT !.outcome = "converged"]
        ELSE LET jac == JacobianLoop(st.chain, currentPose, err, 1, <<>>)
                 upd == UpdateLoop(jac.chain, jac.jointDeltas, 1, FALSE)
             IN  [chain |-> upd.chain,
                  updates |-> st.updates + 1,
                  probes |-> st.probes + Len(jac.jointDeltas),
                  outcome |-> IF upd.movedAnyJoint THEN "moved" ELSE "stalled"]

\* mutant: the loop runs one pass past the iteration budget
RECURSIVE IkIterateOneMore(_, _)
IkIterateOneMore(st, target) ==
    IF st.outcome = "moved" /\ st.updates <= IK_MAX_ITERATIONS
    THEN IkIterateOneMore(IkPass(st, target), target)
    ELSE st

\* the loop of line 449: iteration = st.updates while every pass moved a joint
RECURSIVE IkIterate(_, _)
IkIterate(st, target) ==
    IF st.outcome = "moved" /\ st.updates < IK_MAX_ITERATIONS
    THEN IkIterate(IkPass(st, target), target)
    ELSE st

\* mutant: a loop that stalled reports success without the final check
IkResultStalledSucceeds(st, target) ==
    [solved |-> IF st.outcome \in {"converged", "stalled"} THEN TRUE
                ELSE WithinTolerance(PoseError(getWorldPose(st.chain), target),
                                     IK_FINAL_RELAX),
     chain |-> st.chain,
     iterations |-> IF st.outcome = "converged" THEN st.updates + 1 ELSE st.updates,
     probes |-> st.probes,
     converged |-> st.outcome = "converged",
     stalled |-> st.outcome = "stalled"]

\* lines 456-459 and 525-530: true on convergence, else the final check with the
\* tolerances relaxed; iterations counts the passes begun, probes the Jacobian
\* probes, stalled tells that the loop ended at the break of line 521
IkResult(st, target) ==
    [solved |-> IF st.outcome = "converged" THEN TRUE
                ELSE WithinTolerance(PoseError(getWorldPose(st.chain), target),
                                     IK_FINAL_RELAX),
     chain |-> st.chain,
     iterations |-> IF st.outcome = "converged" THEN st.updates + 1 ELSE st.updates,
     probes |-> st.probes,
     converged |-> st.outcome = "converged",
     stalled |-> st.outcome = "stalled"]

solveIkStep(chain, target) ==
    IF Len(chain) = 0
    THEN [solved |-> FALSE, chain |-> chain, iterations |-> 0, probes |-> 0,
          converged |-> FALSE, stalled |-> FALSE]
    ELSE IkResult(IkIterate([chain |-> chain, updates |-> 0, probes |-> 0,
                             outcome |-> "moved"],
                            target),
                  target)

(***************************************************************************)
(* solveIkToTargetWithRetries (lines 551-578).                             *)
(***************************************************************************)
\* lines 567-568: lerp / slerp of the start pose toward the target by `scale`
BlendTarget(startPose, target, scale) ==
    [z |-> startPose.z + Quot((target.z - startPose.z) * scale, ScaleDen),
     yaw |-> startPose.yaw
               + Quot(orientationError(startPose.yaw, target.yaw) * scale, ScaleDen),
     res |-> Quot(target.res * scale, ScaleDen)]

RECURSIVE RetryLoop(_, _, _, _, _, _, _)
\* lines 570-572: return on success, else the next scale
RetryAfter(attempt, startPose, startSnapshot, target, retryScales, index, starts) ==
    IF attempt.solved
    THEN [solved |-> TRUE, chain |-> attempt.chain, attempts |-> index,
          starts |-> starts]
    ELSE RetryLoop(attempt.chain, startPose, startSnapshot, target, retryScales,
                   index + 1, starts)

\* the attempt of lines 563-569 from the restored chain
RetryAttempt(restored, startPose, startSnapshot, target, retryScales, index, starts) ==
    RetryAfter(solveIkStep(restored,
                           BlendTarget(startPose, target, retryScales[index])),
               startPose, startSnapshot, target, retryScales, index,
               Append(starts, snapshotJointAngles(restored)))

\* lines 562-577; starts logs the joint angles each attempt began with, attempts
\* counts the calls of solveIkStep
RetryLoop(chain, startPose, startSnapshot, target, retryScales, index, starts) ==
    IF index > Len(retryScales)
    THEN [solved |-> FALSE, chain |-> restoreJointAngles(chain, startSnapshot),
          attempts |-> index - 1, starts |-> starts]
    ELSE RetryAttempt(restoreJointAngles(chain, startSnapshot), startPose,
                      startSnapshot, target, retryScales, index, starts)

solveIkToTargetWithRetries(chain, target, retryScales) ==
    RetryLoop(chain, getWorldPose(chain), snapshotJointAngles(chain), target,
              retryScales, 1, <<>>)

\* lines 539-546: the target pose, the current pose moved by the hand-frame delta
DeltaTarget(currentPose, translationLocal, yawLocal) ==
    [z |-> currentPose.z + translationLocal[3],
     yaw |-> currentPose.yaw + yawLocal,
     res |-> HandPlaneNorm(translationLocal[1], translationLocal[2])]

\* applyEndEffectorDelta (lines 533-549)
applyEndEffectorDelta(chain, translationLocal, yawLocal, retryScales) ==
    solveIkToTargetWithRetries(
        chain, DeltaTarget(getWorldPose(chain), translationLocal, yawLocal),
        retryScales)

(***************************************************************************)
(* The description document and its parse (parseUrdf, lines 200-291).  A   *)
(* document is the outcome of the XML parse ("ok", "parsererror", or       *)
(* "norobot" for a document without a <robot> element), its <link>         *)
(* elements and its <joint> elements in document order; a missing          *)
(* attribute is the empty string, a missing limit null.                    *)
(***************************************************************************)
JointElement(name, type, parent, child, axis, lower, upper, pitch) ==
    [name |-> name, type |-> type, parent |-> parent, child |-> child,
     axis |-> axis, lowerLimit |-> lower, upperLimit |-> upper, pitch |-> pitch]

AxisZ == <<0, 0, 1>>

\* a mesh filename: its scheme prefix ("package://", "/", "http://", "https://",
\* "./" or none), the "/"-separated segments after the prefix, and the extension
\* of the last segment
MeshFile(scheme, segments, ext) ==
    [scheme |-> scheme, segments |-> segments, ext |-> ext]

\* a <visual> element: its mesh filename, null when it has no <mesh filename>
VisualElement(meshFilename) == [meshFilename |-> meshFilename]

\* a <link> element with its <visual> elements
LinkElement(name, visuals) == [name |-> name, visuals |-> visuals]

\* <link> elements without visuals
PlainLinks(names) == [i \in 1..Len(names) |-> LinkElement(names[i], <<>>)]

\* The sample documents.  "fr3": three FR3 joints on the path to the hand, two
\* turning it and one lifting it, the last with little travel above its home angle.
\* "offLimit": one limited joint that the home-pose table does not name and whose
\* limits exclude the angle 0.  "noTcp": no end-effector link.  "malformed": not
\* XML.  "fixedOnly": the end-effector hangs on a fixed joint.
Document(id) ==
    CASE id = "fr3" ->
           [xml |-> "ok",
            links |-> PlainLinks(<<"base", "fr3_link1", "fr3_link3", "fr3_hand_tcp">>),
            joints |->
              <<JointElement("fr3_joint1", "revolute", "base", "fr3_link1", AxisZ,
                             Some(-60000), Some(60000), 0),
                JointElement("fr3_joint3", "revolute", "fr3_link1", "fr3_link3", AxisZ,
                             Some(-60000), Some(60000), 0),
                JointElement("fr3_joint7", "revolute", "fr3_link3", "fr3_hand_tcp",
                             AxisZ, Some(700000), Some(790398), 1)>>]
      [] id = "offLimit" ->
           [xml |-> "ok",
            links |-> PlainLinks(<<"base", "fr3_hand_tcp">>),
            joints |->
              <<JointElement("wrist_joint", "revolute", "base", "fr3_hand_tcp", AxisZ,
                             Some(20000), Some(90000), 0)>>]
      [] id = "noTcp" ->
           [xml |-> "ok",
            links |-> PlainLinks(<<"base", "tool">>),
            joints |->
              <<JointElement("fr3_joint1", "revolute", "base", "tool", AxisZ,
                             Null, Null, 0)>>]
      [] id = "malformed" ->
           [xml |-> "parsererror", links |-> <<>>, joints |-> <<>>]
      [] OTHER ->
           [xml |-> "ok",
            links |-> PlainLinks(<<"base", "fr3_hand_tcp">>),
            joints |->
              <<JointElement("fr3_hand_tcp_joint", "fixed", "base", "fr3_hand_tcp",
                             AxisZ, Null, Null, 0)>>]

DocumentIds == {"fr3", "offLimit", "noTcp", "malformed", "fixedOnly"}

\* Map.prototype.set keyed by .name: an entry under a name already present is
\* replaced where it stands, a new one goes last
MapSet(registry, control) ==
    IF \E i \in 1..Len(registry) : registry[i].name = control.name
    THEN [i \in 1..Len(registry) |->
            IF registry[i].name = control.name THEN control ELSE registry[i]]
    ELSE Append(registry, control)

\* Map.prototype.get keyed by .name: <<>> for undefined
MapGet(registry, name) == SelectSeq(registry, LAMBDA c : c.name = name)

\* lines 225-242: the visuals of a link that name a mesh file
SelectVisuals(visuals) == SelectSeq(visuals, LAMBDA v : v.meshFilename # Null)

RECURSIVE SelectLinks(_, _, _)
\* lines 218-245: the links map; a <link> without a name is skipped
SelectLinks(elements, index, links) ==
    IF index > Len(elements) THEN links
    ELSE LET e == elements[index]
         IN  IF e.name = ""
             THEN SelectLinks(elements, index + 1, links)
             ELSE SelectLinks(elements, index + 1,
                              MapSet(links, LinkElement(e.name,
                                                        SelectVisuals(e.visuals))))

\* mutant: a joint without a name is accepted
SelectJointsKeepsUnnamed(elements, index) ==
    SelectSeq(elements, LAMBDA e : e.parent # "" /\ e.child # "")

RECURSIVE SelectJoints(_, _)
\* the joints of a sequence accepted by line 253: name, parent and child present
SelectJoints(elements, index) ==
    IF index > Len(elements) THEN <<>>
    ELSE LET e == elements[index]
         IN  IF e.name = "" \/ e.parent = "" \/ e.child = ""
             THEN SelectJoints(elements, index + 1)
             ELSE <<e>> \o SelectJoints(elements, index + 1)

\* mutant: the first key of the links map is taken as the root, child or not
FirstRootFirstLink(links, childLinks, index) ==
    IF index > Len(links) THEN "" ELSE links[index].name

RECURSIVE FirstRoot(_, _, _)
\* line 281: the first key of the links map that is no accepted joint's child
FirstRoot(links, childLinks, index) ==
    IF index > Len(links) THEN ""
    ELSE IF links[index].name \notin childLinks THEN links[index].name
         ELSE FirstRoot(links, childLinks, index + 1)

\* a throw of parseUrdf
ParseFailure(error) ==
    [ok |-> FALSE, error |-> error, rootLink |-> "", links |-> <<>>,
     joints |-> <<>>, childLinks |-> {}]

parseUrdf(doc) ==
    IF doc.xml = "parsererror" THEN ParseFailure("Unable to parse URDF XML")
    ELSE IF doc.xml = "norobot"
    THEN ParseFailure("URDF does not contain a <robot> root element")
    ELSE
    LET links == SelectLinks(doc.links, 1, <<>>)
        joints == SelectJoints(doc.joints, 1)
        childLinks == {joints[i].child : i \in 1..Len(joints)}
        rootLink == FirstRoot(links, childLinks, 1)
    IN  IF rootLink = "" THEN ParseFailure("Could not find root link in URDF")
        ELSE [ok |-> TRUE, error |-> "", rootLink |-> rootLink, links |-> links,
              joints |-> joints, childLinks |-> childLinks]

\* urdf.jointsByParent.get(linkName) ?? []
JointsByParent(urdf, linkName) ==
    SelectSeq(urdf.joints, LAMBDA j : j.parent = linkName)

(***************************************************************************)
(* findJointPathToLink (lines 293-307): <<FALSE>> for null, <<TRUE, path>> *)
(* otherwise.                                                              *)
(***************************************************************************)
RECURSIVE findJointPathToLink(_, _, _)
RECURSIVE FindInChildren(_, _, _, _)
FindInChildren(urdf, childJoints, index, targetLink) ==
    IF index > Len(childJoints) THEN <<FALSE>>
    ELSE LET pathFromChild ==
                 findJointPathToLink(urdf, childJoints[index].child, targetLink)
         IN  IF pathFromChild[1]
             THEN <<TRUE, <<childJoints[index]>> \o pathFromChild[2]>>
             ELSE FindInChildren(urdf, childJoints, index + 1, targetLink)

\* mutant: the search takes the first child joint that leads anywhere, without
\* asking whether the target has been reached
findJointPathToLinkFirstBranch(urdf, currentLink, targetLink) ==
    IF JointsByParent(urdf, currentLink) = <<>> THEN <<TRUE, <<>>>>
    ELSE FindInChildren(urdf, JointsByParent(urdf, currentLink), 1, targetLink)

findJointPathToLink(urdf, currentLink, targetLink) ==
    IF currentLink = targetLink THEN <<TRUE, <<>>>>
    ELSE FindInChildren(urdf, JointsByParent(urdf, currentLink), 1, targetLink)

(***************************************************************************)
(* resolveMeshUrl (lines 309-334) and loadVisualObject (lines 604-658).    *)
(* A URL is its base, its path segments and its extension.                 *)
(***************************************************************************)
PackageNames == {"franka_description"}
\* PACKAGE_MAP (lines 73-75), the trailing slash of a base path removed
PACKAGE_MAP == [n \in PackageNames |-> "/franka_description"]

MeshUrl(base, segments, ext) == [base |-> base, segments |-> segments, ext |-> ext]

\* a throw of resolveMeshUrl
ResolveFailure(error) ==
    [ok |-> FALSE, error |-> error, url |-> MeshUrl("", <<>>, "")]

resolveMeshUrl(filename) ==
    IF filename.scheme = "package://"
    THEN IF Len(filename.segments) < 2
         THEN ResolveFailure("Invalid package URI")
         ELSE IF filename.segments[1] \notin DOMAIN PACKAGE_MAP
         THEN ResolveFailure("No package mapping configured")
         ELSE [ok |-> TRUE, error |-> "",
               url |-> MeshUrl(PACKAGE_MAP[filename.segments[1]],
                               Tail(filename.segments), filename.ext)]
    ELSE IF filename.scheme \in {"/", "http://", "https://"}
    THEN [ok |-> TRUE, error |-> "",
          url |-> MeshUrl(filename.scheme, filename.segments, filename.ext)]
    ELSE [ok |-> TRUE, error |-> "",
          url |-> MeshUrl("/", filename.segments, filename.ext)]

\* url.toLowerCase() on the extension
LowerExt(ext) ==
    CASE ext = ".DAE" -> ".dae" [] ext = ".STL" -> ".stl" [] OTHER -> ext

\* lines 616-629: the formats a loader exists for
MeshFormatSupported(url) == LowerExt(url.ext) \in {".dae", ".stl"}

\* loadAsync: the asset server has every file but those below a directory "absent"
MeshLoads(url) == \A i \in 1..Len(url.segments) : url.segments[i] # "absent"

\* lines 613-646: the object cached under the URL, a placeholder when the load threw
LoadInto(acc, url) ==
    IF url \in acc.objectCache
    THEN [acc EXCEPT !.visuals = Append(@, [url |-> url,
                                            placeholder |-> url \in acc.missingMeshes])]
    ELSE IF MeshFormatSupported(url) /\ MeshLoads(url)
    THEN [acc EXCEPT !.objectCache = @ \cup {url},
                     !.visuals = Append(@, [url |-> url, placeholder |-> FALSE])]
    ELSE [acc EXCEPT !.objectCache = @ \cup {url},
                     !.missingMeshes = @ \cup {url},
                     !.visuals = Append(@, [url |-> url, placeholder |-> TRUE])]

\* the build state acc: the registry of controllable joints, the missing meshes,
\* the object cache, the visual objects built, and the error thrown ("" for none)
loadVisualObject(acc, visual) ==
    LET resolved == resolveMeshUrl(visual.meshFilename[1])
    IN  IF ~resolved.ok THEN [acc EXCEPT !.error = resolved.error]
        ELSE LoadInto(acc, resolved.url)

RECURSIVE LoadVisuals(_, _, _)
\* lines 673-678: the visuals of a link in order, until one throws
LoadVisuals(acc, visuals, index) ==
    IF index > Len(visuals) \/ acc.error # "" THEN acc
    ELSE LoadVisuals(loadVisualObject(acc, visuals[index]), visuals, index + 1)

(***************************************************************************)
(* buildLinkTree (lines 660-719): the registry of controllable joints is a *)
(* sequence of JointControl; a later registration under a name replaces    *)
(* the earlier one (Map.set).                                              *)
(***************************************************************************)
AxisLengthSq(axis) == axis[1] * axis[1] + axis[2] * axis[2] + axis[3] * axis[3]

\* lines 690-701
IsControllable(joint) ==
    /\ joint.type \in {"revolute", "continuous"}
    /\ AxisLengthSq(joint.axis) > 0

\* lines 691-699: the control registered for a joint; its motionGroup is the motion
\* node of that joint, which sits between the joint's parent and child links
JointControl(joint) ==
    [name |-> joint.name, type |-> joint.type, lowerLimit |-> joint.lowerLimit,
     upperLimit |-> joint.upperLimit, pitch |-> joint.pitch, angle |-> 0,
     motionGroup |-> [parent |-> joint.parent, child |-> joint.child]]

\* lines 669-678: the visuals of the link, when the links map has it
LinkVisuals(urdf, linkName) ==
    IF MapGet(urdf.links, linkName) = <<>> THEN <<>>
    ELSE MapGet(urdf.links, linkName)[1].visuals

\* lines 690-702
Registered(acc, joint) ==
    IF IsControllable(joint)
    THEN [acc EXCEPT !.controllableJoints = MapSet(@, JointControl(joint))]
    ELSE acc

RECURSIVE buildLinkTree(_, _, _)
RECURSIVE BuildChildren(_, _, _, _)
BuildChildren(urdf, childJoints, index, acc) ==
    IF index > Len(childJoints) \/ acc.error # "" THEN acc
    ELSE BuildChildren(urdf, childJoints, index + 1,
                       buildLinkTree(urdf, childJoints[index].child,
                                     Registered(acc, childJoints[index])))

\* the build state after the subtree of linkName is built
buildLinkTree(urdf, linkName, acc) ==
    BuildChildren(urdf, JointsByParent(urdf, linkName), 1,
                  LoadVisuals(acc, LinkVisuals(urdf, linkName), 1))

\* lines 729-733: the empty cache, missing-mesh set and registry
EmptyBuild ==
    [controllableJoints |-> <<>>, missingMeshes |-> {}, objectCache |-> {},
     visuals |-> <<>>, error |-> ""]

\* applyHomePose (lines 381-388)
RECURSIVE ApplyHomeFrom(_, _)
ApplyHomeFrom(chain, index) ==
    IF index > Len(chain) THEN chain
    ELSE IF chain[index].name \in DOMAIN FR3_HOME_ANGLES
         THEN ApplyHomeFrom(
                  SetChainAngle(chain, index, FR3_HOME_ANGLES[chain[index].name]),
                  index + 1)
         ELSE ApplyHomeFrom(chain, index + 1)

applyHomePose(chain) == ApplyHomeFrom(chain, 1)

(***************************************************************************)
(* loadFr3UrdfRobot (lines 721-780): [settles, ok, error, controlChain,    *)
(* missingMeshes, visuals].  A tree build that recurses for ever either    *)
(* overflows the call stack, which rejects the promise, or, suspended at   *)
(* an await in every round, leaves the promise pending.                    *)
(***************************************************************************)
RECURSIVE ReachableFrom(_, _)
\* the links at or below `links`
ReachableFrom(urdf, links) ==
    LET next == links \cup {urdf.joints[i].child :
                              i \in {k \in 1..Len(urdf.joints) :
                                       urdf.joints[k].parent \in links}}
    IN  IF next = links THEN links ELSE ReachableFrom(urdf, next)

\* the links strictly below linkName
Descendants(urdf, linkName) ==
    ReachableFrom(urdf, {urdf.joints[i].child :
                           i \in {k \in 1..Len(urdf.joints) :
                                    urdf.joints[k].parent = linkName}})

\* the recursion of lines 680-716 (and of lines 298-304) started at linkName comes
\* back to a link it is already building
RecursesForever(urdf, linkName) ==
    \E l \in ReachableFrom(urdf, {linkName}) : l \in Descendants(urdf, l)

\* the endless recursion suspends at an await of line 675: some link it comes back
\* to has a visual.  Otherwise every call is made before the caller has reached an
\* await that suspends, and the call stack overflows.
RecursionSuspends(urdf, linkName) ==
    \E l \in ReachableFrom(urdf, {linkName}) :
        l \in Descendants(urdf, l) /\ LinkVisuals(urdf, l) # <<>>

RECURSIVE FilterPath(_, _, _)
\* lines 759-765
FilterPath(jointPath, registry, index) ==
    IF index > Len(jointPath) THEN <<>>
    ELSE MapGet(registry, jointPath[index].name)
             \o FilterPath(jointPath, registry, index + 1)

\* mutant: a fatal error is swallowed and the load resolves with an empty chain
LoadFailureResolves(error) ==
    [settles |-> TRUE, ok |-> TRUE, error |-> error, controlChain |-> <<>>,
     missingMeshes |-> {}, visuals |-> <<>>]

\* a throw of loadFr3UrdfRobot
LoadFailure(error) ==
    [settles |-> TRUE, ok |-> FALSE, error |-> error, controlChain |-> <<>>,
     missingMeshes |-> {}, visuals |-> <<>>]

\* the promise never settles
LoadPending ==
    [settles |-> FALSE, ok |-> FALSE, error |-> "", controlChain |-> <<>>,
     missingMeshes |-> {}, visuals |-> <<>>]

\* lines 749-779: after the tree is built
LoadBuilt(urdf, built) ==
    IF built.error # "" THEN LoadFailure(built.error)
    ELSE
    LET jointPath == findJointPathToLink(urdf, urdf.rootLink, END_EFFECTOR_LINK)
    IN  \* getObjectByName finds the link group iff the link hangs below the root
        IF ~jointPath[1] THEN LoadFailure("Could not find end-effector link")
        ELSE
        LET chain == FilterPath(jointPath[2], built.controllableJoints, 1)
        IN  IF Len(chain) = 0 THEN LoadFailure("No controllable joints")
            ELSE [settles |-> TRUE, ok |-> TRUE, error |-> "",
                  controlChain |-> applyHomePose(chain),
                  missingMeshes |-> built.missingMeshes,
                  visuals |-> built.visuals]

\* lines 727-779: from the fetched document on
LoadDocument(doc) ==
    LET urdf == parseUrdf(doc)
    IN  IF ~urdf.ok THEN LoadFailure(urdf.error)
        ELSE IF RecursesForever(urdf, urdf.rootLink)
        THEN IF RecursionSuspends(urdf, urdf.rootLink) THEN LoadPending
             ELSE LoadFailure("Maximum call stack size exceeded")
        ELSE LoadBuilt(urdf, buildLinkTree(urdf, urdf.rootLink, EmptyBuild))

loadFr3UrdfRobot(text) ==
    IF text = "fetch-failed" THEN LoadFailure("Failed to fetch URDF")
    ELSE LoadDocument(Document(text))

(***************************************************************************)
(* The pad commands (HAND_FRAME_COMMANDS, lines 113-162): translationLocal *)
(* and yawLocal of each key.                                               *)
(***************************************************************************)
PadCommandKeys ==
    {"front", "back", "left", "right", "up", "down", "yawLeft", "yawRight"}

HAND_FRAME_COMMANDS ==
    [k \in PadCommandKeys |->
        CASE k = "front" ->
               [translationLocal |-> <<TRANSLATION_STEP_METERS, 0, 0>>, yawLocal |-> 0]
          [] k = "back" ->
               [translationLocal |-> <<-TRANSLATION_STEP_METERS, 0, 0>>, yawLocal |-> 0]
          [] k = "left" ->
               [translationLocal |-> <<0, TRANSLATION_STEP_METERS, 0>>, yawLocal |-> 0]
          [] k = "right" ->
               [translationLocal |-> <<0, -TRANSLATION_STEP_METERS, 0>>, yawLocal |-> 0]
          [] k = "up" ->
               [translationLocal |-> <<0, 0, -TRANSLATION_STEP_METERS>>, yawLocal |-> 0]
          [] k = "down" ->
               [translationLocal |-> <<0, 0, TRANSLATION_STEP_METERS>>, yawLocal |-> 0]
          [] k = "yawLeft" ->
               [translationLocal |-> <<0, 0, 0>>, yawLocal |-> YAW_STEP_RADIANS]
          [] OTHER ->
               [translationLocal |-> <<0, 0, 0>>, yawLocal |-> -YAW_STEP_RADIANS]]

(***************************************************************************)
(* The component's handlers (lines 797-957) as functions of its state c:   *)
(* the refs, the React state they set, the window's live intervals and the *)
(* loaded robot's control chain.  c.ranSolve and c.lastSolved record       *)
(* whether the handler ran a motion request and what it returned.          *)
(***************************************************************************)
TimerIds(liveTimers) == {t.id : t \in liveTimers}

\* window.setInterval: the id it returns, a positive integer no live interval has
NewTimerId(liveTimers) ==
    CHOOSE id \in 1..(Cardinality(liveTimers) + 1) :
        /\ id \notin TimerIds(liveTimers)
        /\ \A smaller \in 1..(id - 1) : smaller \in TimerIds(liveTimers)

\* window.clearInterval(id)
clearInterval(liveTimers, id) == {t \in liveTimers : t.id # id}

\* lines 797-806
clearTrajectoryLoop(c) ==
    [c EXCEPT !.timers = IF c.trajectoryIntervalRef # 0
                         THEN clearInterval(c.timers, c.trajectoryIntervalRef)
                         ELSE c.timers,
              !.trajectoryIntervalRef = 0,
              !.trajectoryBasePoseRef = Null,
              !.trajectoryConsecutiveFailuresRef = 0,
              !.trajectoryRunning = FALSE]

\* mutant: the hold is forgotten without clearing its interval
stopContinuousPadCommandKeepsInterval(c) ==
    [c EXCEPT !.activePadCommandRef = "null",
              !.holdIntervalRef = 0]

\* lines 832-838
stopContinuousPadCommand(c) ==
    [c EXCEPT !.activePadCommandRef = "null",
              !.timers = IF c.holdIntervalRef # 0
                         THEN clearInterval(c.timers, c.holdIntervalRef)
                         ELSE c.timers,
              !.holdIntervalRef = 0]

\* a translation scaled by stepScale / ScaleDen
ScaleVector(v, stepScale) ==
    <<Quot(v[1] * stepScale, ScaleDen), Quot(v[2] * stepScale, ScaleDen),
      Quot(v[3] * stepScale, ScaleDen)>>

\* lines 823-829: the status text of the result, which is returned
PadResult(c, result) ==
    [c EXCEPT !.controlChain = result.chain,
              !.ranSolve = TRUE,
              !.lastSolved = result.solved,
              !.padStatusText = IF result.solved THEN "pad ready"
                                ELSE "reached local motion boundary"]

\* lines 814-822: the command's delta scaled by stepScale
PadDelta(c, command, stepScale) ==
    applyEndEffectorDelta(c.controlChain,
                          ScaleVector(command.translationLocal, stepScale),
                          Quot(command.yawLocal * stepScale, ScaleDen),
                          PAD_COMMAND_RETRY_SCALES)

\* lines 808-830
executePadCommand(c, commandKey, stepScale) ==
    IF ~c.loadedRobotRef THEN [c EXCEPT !.lastSolved = FALSE]
    ELSE PadResult(c, PadDelta(c, HAND_FRAME_COMMANDS[commandKey], stepScale))

\* mutant: a failed step leaves the hold running
HoldSteppedKeepsHold(executed) == executed

\* lines 870-873: a failed step stops the hold
HoldStepped(executed) ==
    IF ~executed.lastSolved THEN stopContinuousPadCommand(executed) ELSE executed

\* the interval callback of lines 864-874
HoldCallback(c) ==
    IF c.activePadCommandRef = "null" THEN c
    ELSE HoldStepped(executePadCommand(c, c.activePadCommandRef, PAD_HOLD_STEP_SCALE))

\* window.setInterval of line 864, its id stored in holdIntervalRef
SetHoldInterval(c, id) ==
    [c EXCEPT !.holdIntervalRef = id,
              !.timers = c.timers \cup {[id |-> id, kind |-> "hold"]}]

\* mutant: the hold interval is created before the initial step is judged
HoldStartedTimerFirst(executed) ==
    SetHoldInterval(executed, NewTimerId(executed.timers))

\* lines 858-875: a failed initial step stops the hold, else the interval starts
HoldStarted(executed) ==
    IF ~executed.lastSolved THEN stopContinuousPadCommand(executed)
    ELSE SetHoldInterval(executed, NewTimerId(executed.timers))

\* lines 852-856: the active command is set after any earlier hold is stopped
HoldArmed(c, commandKey) ==
    [stopContinuousPadCommand(c) EXCEPT !.activePadCommandRef = commandKey]

\* mutant: the hold starts without cancelling a running trajectory
startContinuousPadCommandKeepsTrajectory(c, enabled, commandKey) ==
    IF ~enabled THEN c
    ELSE HoldStarted(executePadCommand(HoldArmed(c, commandKey),
                                       commandKey, PAD_HOLD_STEP_SCALE))

\* lines 840-877; `enabled` is the controlsEnabled the callback closed over
startContinuousPadCommand(c, enabled, commandKey) ==
    IF ~enabled THEN c
    ELSE HoldStarted(executePadCommand(HoldArmed(clearTrajectoryLoop(c), commandKey),
                                       commandKey, PAD_HOLD_STEP_SCALE))

\* lines 879-887
handlePadButtonClick(c, commandKey, detail) ==
    IF detail = 0 THEN executePadCommand(c, commandKey, PAD_FULL_STEP_SCALE) ELSE c

\* window.setInterval of line 909, its id stored in trajectoryIntervalRef
SetTrajectoryInterval(c, id) ==
    [c EXCEPT !.trajectoryIntervalRef = id,
              !.timers = c.timers \cup {[id |-> id, kind |-> "trajectory"]}]

\* lines 899-908 and 951: the base pose is taken and the interval started
TrajectoryStarted(cleared) ==
    SetTrajectoryInterval(
        [cleared EXCEPT
            !.trajectoryBasePoseRef = Some(getWorldPose(cleared.controlChain)),
            !.trajectoryConsecutiveFailuresRef = 0,
            !.trajectoryRunning = TRUE,
            !.padStatusText = "running default trajectory"],
        NewTimerId(cleared.timers))

\* lines 889-908 and 951: everything but the interval callback
startDefaultTrajectory(c, enabled) ==
    IF ~enabled \/ ~c.loadedRobotRef THEN c
    ELSE TrajectoryStarted(clearTrajectoryLoop(stopContinuousPadCommand(c)))

\* lines 954-957
stopDefaultTrajectory(c) ==
    [clearTrajectoryLoop(c) EXCEPT !.padStatusText = "pad ready"]

(***************************************************************************)
(* The scripted trajectory (lines 916-932).  The elapsed time is sampled   *)
(* at the quarter periods: omega * t = phase * pi / 2.                     *)
(***************************************************************************)
TrajectoryPhases == 0..3
\* sin(phase * pi / 2)
SinQuarter(phase) == CASE phase % 4 = 1 -> 1 [] phase % 4 = 3 -> -1 [] OTHER -> 0

\* offsetInHandFrame and yaw at a phase
TrajectoryOffset(phase) ==
    [translationLocal |->
        <<TRAJECTORY_X_AMPLITUDE_METERS * SinQuarter(phase),
          TRAJECTORY_Y_AMPLITUDE_METERS * SinQuarter(2 * phase),
          TRAJECTORY_Z_AMPLITUDE_METERS * SinQuarter(phase + 1)>>,
     yawLocal |-> TRAJECTORY_YAW_AMPLITUDE_RADIANS * SinQuarter(phase)]

\* lines 925-932: the target pose, the base pose moved by the offset
TrajectoryTarget(basePose, offset) ==
    [z |-> basePose.z + offset.translationLocal[3],
     yaw |-> basePose.yaw + offset.yawLocal,
     res |-> HandPlaneNorm(offset.translationLocal[1], offset.translationLocal[2])]

\* mutant: the loop is stopped only after one failure more than the threshold
TrajectoryLimitReachedLate(failures) ==
    failures > TRAJECTORY_MAX_CONSECUTIVE_FAILURES

\* line 943
TrajectoryLimitReached(failures) ==
    failures >= TRAJECTORY_MAX_CONSECUTIVE_FAILURES

\* lines 942-947: the failure is counted and the loop stopped at the threshold
TrajectoryFailed(counted) ==
    IF TrajectoryLimitReached(counted.trajectoryConsecutiveFailuresRef)
    THEN [clearTrajectoryLoop(counted) EXCEPT !.padStatusText = "trajectory paused"]
    ELSE counted

\* mutant: a successful tick leaves the failure counter as it is
TrajectoryResultKeepsCount(c, result) ==
    IF ~result.solved
    THEN TrajectoryFailed(
             [c EXCEPT !.controlChain = result.chain,
                       !.ranSolve = TRUE,
                       !.lastSolved = FALSE,
                       !.trajectoryConsecutiveFailuresRef =
                           c.trajectoryConsecutiveFailuresRef + 1])
    ELSE [c EXCEPT !.controlChain = result.chain,
                   !.ranSolve = TRUE,
                   !.lastSolved = TRUE]

\* lines 941-950
TrajectoryResult(c, result) ==
    IF ~result.solved
    THEN TrajectoryFailed(
             [c EXCEPT !.controlChain = result.chain,
                       !.ranSolve = TRUE,
                       !.lastSolved = FALSE,
                       !.trajectoryConsecutiveFailuresRef =
                           c.trajectoryConsecutiveFailuresRef + 1])
    ELSE [c EXCEPT !.controlChain = result.chain,
                   !.ranSolve = TRUE,
                   !.lastSolved = TRUE,
                   !.trajectoryConsecutiveFailuresRef = 0]

\* the interval callback of lines 909-951
TrajectoryCallback(c, phase) ==
    IF ~c.loadedRobotRef \/ c.trajectoryBasePoseRef = Null THEN c
    ELSE TrajectoryResult(
             c,
             solveIkToTargetWithRetries(
                 c.controlChain,
                 TrajectoryTarget(c.trajectoryBasePoseRef[1], TrajectoryOffset(phase)),
                 TRAJECTORY_TARGET_RETRY_SCALES))

(***************************************************************************)
(* Initial values of the component (lines 783-795) and of the bookkeeping. *)
(***************************************************************************)
InitComponent ==
    /\ loadState = "pending"
    /\ disposed = FALSE
    /\ loadedRobotRef = FALSE
    /\ activePadCommandRef = "null"
    /\ holdIntervalRef = 0
    /\ trajectoryIntervalRef = 0
    /\ trajectoryBasePoseRef = Null
    /\ trajectoryConsecutiveFailuresRef = 0
    /\ controlsEnabled = FALSE
    /\ trajectoryRunning = FALSE
    /\ padStatusText = "disabled while loading"
    /\ timers = {}
    /\ startAngles = <<>>
    /\ lastArg = 0
    /\ ranSolve = FALSE
    /\ lastSolved = FALSE
    /\ clearedKinds = {}
    /\ callResult = Null
    /\ moves = 0

(***************************************************************************)
(* The component as a state machine: one action per event the browser can  *)
(* deliver (load settled, pointer and click events, interval ticks,        *)
(* unmount), each running its whole handler.                               *)
(***************************************************************************)
Init ==
    /\ InitComponent
    /\ urdfText \in DocumentIds \cup {"fetch-failed"}
    /\ controlChain = <<>>
    /\ callArgs = Null
    /\ lastEvent = "mount"

\* the component state the handlers read
Cur ==
    [loadedRobotRef |-> loadedRobotRef,
     controlChain |-> controlChain,
     activePadCommandRef |-> activePadCommandRef,
     holdIntervalRef |-> holdIntervalRef,
     trajectoryIntervalRef |-> trajectoryIntervalRef,
     trajectoryBasePoseRef |-> trajectoryBasePoseRef,
     trajectoryConsecutiveFailuresRef |-> trajectoryConsecutiveFailuresRef,
     trajectoryRunning |-> trajectoryRunning,
     padStatusText |-> padStatusText,
     timers |-> timers,
     ranSolve |-> FALSE,
     lastSolved |-> FALSE]

\* the handler moved the loaded robot's joints
Moved(c) ==
    /\ Len(c.controlChain) = Len(controlChain)
    /\ snapshotJointAngles(c.controlChain) # snapshotJointAngles(controlChain)

\* the handler ran a motion request or changed the component
Acted(c) == c # Cur

\* the component takes the state c; lastEvent, ranSolve and lastSolved describe the
\* last handler that acted
Assign(c, event) ==
    /\ loadedRobotRef' = c.loadedRobotRef
    /\ controlChain' = c.controlChain
    /\ activePadCommandRef' = c.activePadCommandRef
    /\ holdIntervalRef' = c.holdIntervalRef
    /\ trajectoryIntervalRef' = c.trajectoryIntervalRef
    /\ trajectoryBasePoseRef' = c.trajectoryBasePoseRef
    /\ trajectoryConsecutiveFailuresRef' = c.trajectoryConsecutiveFailuresRef
    /\ trajectoryRunning' = c.trajectoryRunning
    /\ padStatusText' = c.padStatusText
    /\ timers' = c.timers
    /\ ranSolve' = c.ranSolve
    /\ lastSolved' = c.lastSolved
    /\ clearedKinds' = {t.kind : t \in timers \ c.timers}
    /\ lastEvent' = event
    /\ moves' = IF Moved(c) THEN moves + 1 ELSE moves
    /\ UNCHANGED <<urdfText, disposed, startAngles, lastArg, callArgs, callResult>>

\* the state a handler leaves, within the bounds of the model
Commit(c, event) ==
    IF ~Acted(c) THEN UNCHANGED vars
    ELSE /\ Moved(c) => moves < MaxMoves
         /\ Cardinality(c.timers) <= MaxTimers
         /\ Assign(c, event)
         /\ UNCHANGED <<loadState, controlsEnabled>>

\* the pad buttons the user presses: one that asks to leave the hand axis, one
\* along it and one that turns the hand about it
PressedKeys == {"front", "down", "yawRight"}

\* mutant: the continuation stores the robot without looking at `disposed`
LoadStoredIgnoresDisposed(c, loadedRobot, isDisposed) ==
    [c EXCEPT !.loadedRobotRef = TRUE,
              !.controlChain = loadedRobot.controlChain,
              !.padStatusText = "pad ready"]

\* lines 1062-1070: the continuation returns when disposed, else stores the robot
LoadStored(c, loadedRobot, isDisposed) ==
    IF isDisposed THEN c
    ELSE [c EXCEPT !.loadedRobotRef = TRUE,
                   !.controlChain = loadedRobot.controlChain,
                   !.padStatusText = "pad ready"]

\* lines 1061-1095: the load promise resolves
LoadResolve ==
    /\ loadState = "pending"
    /\ loadFr3UrdfRobot(urdfText).ok
    /\ loadState' = "resolved"
    /\ Assign(LoadStored(Cur, loadFr3UrdfRobot(urdfText), disposed), "loadResolved")
    /\ controlsEnabled' = (IF disposed THEN controlsEnabled ELSE TRUE)

\* lines 1096-1104: the load promise rejects
LoadReject ==
    /\ loadState = "pending"
    /\ loadFr3UrdfRobot(urdfText).settles
    /\ ~loadFr3UrdfRobot(urdfText).ok
    /\ loadState' = "rejected"
    /\ IF disposed
       THEN /\ Assign(Cur, "loadRejected")
            /\ UNCHANGED controlsEnabled
       ELSE /\ Assign([Cur EXCEPT !.padStatusText = "control pad unavailable"],
                      "loadRejected")
            /\ controlsEnabled' = FALSE

\* onPointerDown of a pad button (line 1189)
PadPointerDown ==
    /\ ~disposed
    /\ \E commandKey \in PressedKeys :
         \E c \in {startContinuousPadCommand(Cur, controlsEnabled, commandKey)} :
             Commit(c, "pointerdown")

\* onPointerUp, onPointerCancel, onLostPointerCapture of a pad button (lines
\* 1190-1192) and the window's pointerup, pointercancel and blur (lines 959-966):
\* every one of them is bound to stopContinuousPadCommand, so they are one event
PointerRelease ==
    /\ ~disposed
    /\ \E c \in {stopContinuousPadCommand(Cur)} : Commit(c, "release")

\* onClick of a pad button (line 1193), which is disabled unless controlsEnabled
\* (line 1188); detail is 0 for a keyboard activation
PadButtonClick ==
    /\ ~disposed
    /\ controlsEnabled
    /\ \E commandKey \in PressedKeys, detail \in {0, 1} :
         \E c \in {handlePadButtonClick(Cur, commandKey, detail)} :
             Commit(c, IF detail = 0 THEN "keyboardClick" ELSE "pointerClick")

\* onClick of Start Trajectory, disabled when !controlsEnabled || trajectoryRunning
\* (lines 1164-1171)
StartTrajectoryClick ==
    /\ ~disposed
    /\ controlsEnabled /\ ~trajectoryRunning
    /\ \E c \in {startDefaultTrajectory(Cur, controlsEnabled)} :
         Commit(c, "startTrajectory")

\* onClick of Stop Trajectory, disabled when !controlsEnabled || !trajectoryRunning
\* (lines 1172-1179)
StopTrajectoryClick ==
    /\ ~disposed
    /\ controlsEnabled /\ trajectoryRunning
    /\ \E c \in {stopDefaultTrajectory(Cur)} : Commit(c, "stopTrajectory")

\* a live hold interval fires (every PAD_HOLD_REPEAT_MS)
HoldTick ==
    /\ \E t \in timers : t.kind = "hold"
    /\ \E c \in {HoldCallback(Cur)} : Commit(c, "holdTick")

\* a live trajectory interval fires (every TRAJECTORY_UPDATE_MS)
TrajectoryTick ==
    /\ \E t \in timers : t.kind = "trajectory"
    /\ \E phase \in TrajectoryPhases :
         \E c \in {TrajectoryCallback(Cur, phase)} : Commit(c, "trajectoryTick")

\* the unmount: the cleanups of both effects (lines 968-974 and 1115-1143)
Teardown ==
    /\ ~disposed
    /\ disposed' = TRUE
    /\ \E c \in {clearTrajectoryLoop(stopContinuousPadCommand(
                    clearTrajectoryLoop(stopContinuousPadCommand(Cur))))} :
           /\ loadedRobotRef' = FALSE
           /\ controlChain' = <<>>
           /\ activePadCommandRef' = c.activePadCommandRef
           /\ holdIntervalRef' = c.holdIntervalRef
           /\ trajectoryIntervalRef' = c.trajectoryIntervalRef
           /\ trajectoryBasePoseRef' = c.trajectoryBasePoseRef
           /\ trajectoryConsecutiveFailuresRef' = c.trajectoryConsecutiveFailuresRef
           /\ trajectoryRunning' = c.trajectoryRunning
           /\ padStatusText' = c.padStatusText
           /\ timers' = c.timers
           /\ clearedKinds' = {t.kind : t \in timers \ c.timers}
    /\ ranSolve' = FALSE
    /\ lastSolved' = FALSE
    /\ lastEvent' = "teardown"
    /\ UNCHANGED <<urdfText, loadState, controlsEnabled, startAngles, lastArg,
                   callArgs, callResult, moves>>

Next ==
    \/ LoadResolve
    \/ LoadReject
    \/ PadPointerDown
    \/ PointerRelease
    \/ PadButtonClick
    \/ StartTrajectoryClick
    \/ StopTrajectoryClick
    \/ HoldTick
    \/ TrajectoryTick
    \/ Teardown

Spec == Init /\ [][Next]_vars

(***************************************************************************)
(* Joint-level specification: one joint control as buildLinkTree registers *)
(* it (lines 693-701: angle 0, the declared type and limits), driven by    *)
(* setJointAngle, snapshotJointAngles and restoreJointAngles with          *)
(* arbitrary requested angles.                                             *)
(***************************************************************************)
AngleSamples == (-MaxAngle)..MaxAngle
LimitSamples == {Null} \cup {Some(v) : v \in {-2, -1, 1, 2}}

RegisteredJoint(type, lower, upper) ==
    [name |-> "joint", type |-> type, lowerLimit |-> lower, upperLimit |-> upper,
     pitch |-> 0, angle |-> 0]

InitJoint ==
    /\ InitComponent
    /\ urdfText = "none"
    /\ \E type \in {"revolute", "continuous"}, lower \in LimitSamples,
          upper \in LimitSamples :
            controlChain = <<RegisteredJoint(type, lower, upper)>>
    /\ callArgs = Null
    /\ lastEvent = "buildLinkTree"

JointUnchanged ==
    UNCHANGED <<urdfText, loadState, disposed, loadedRobotRef, activePadCommandRef,
                holdIntervalRef, trajectoryIntervalRef, trajectoryBasePoseRef,
                trajectoryConsecutiveFailuresRef, controlsEnabled,
                trajectoryRunning, padStatusText, timers, ranSolve, lastSolved,
                clearedKinds, callArgs, callResult, moves>>

JointSet ==
    \E angle \in AngleSamples :
        /\ controlChain' = SetChainAngle(controlChain, 1, angle)
        /\ lastEvent' = "setJointAngle"
        /\ lastArg' = angle
        /\ UNCHANGED startAngles
        /\ JointUnchanged

JointSnapshot ==
    /\ startAngles' = snapshotJointAngles(controlChain)
    /\ lastEvent' = "snapshotJointAngles"
    /\ UNCHANGED <<controlChain, lastArg>>
    /\ JointUnchanged

JointRestore ==
    /\ startAngles # <<>>
    /\ controlChain' = restoreJointAngles(controlChain, startAngles)
    /\ lastEvent' = "restoreJointAngles"
    /\ UNCHANGED <<startAngles, lastArg>>
    /\ JointUnchanged

NextJoint == JointSet \/ JointSnapshot \/ JointRestore

SpecJoint == InitJoint /\ [][NextJoint]_vars

(***************************************************************************)
(* Load-level specification: parseUrdf, findJointPathToLink and the load   *)
(* from the fetched document on (lines 727-779), applied to a description  *)
(* document drawn from the samples below.                                  *)
(***************************************************************************)
LoadLinks == {"base", "mid", "fr3_hand_tcp"}

\* the <link> elements of a sample, in document order: every link declared; the
\* end-effector declared first and a <link> without a name; "base" not declared
LinkListSamples ==
    {PlainLinks(<<"base", "mid", "fr3_hand_tcp">>),
     PlainLinks(<<"fr3_hand_tcp", "", "mid", "base">>),
     PlainLinks(<<"mid", "fr3_hand_tcp">>)}

\* parent and child of a sampled joint: down the chain, past the middle link, back
\* up, and onto itself
EdgeSamples ==
    {<<"base", "mid">>, <<"mid", "fr3_hand_tcp">>, <<"base", "fr3_hand_tcp">>,
     <<"mid", "base">>, <<"mid", "mid">>}

KindSamples ==
    {[type |-> "revolute", lower |-> Some(-50000), upper |-> Some(50000)],
     [type |-> "continuous", lower |-> Null, upper |-> Null],
     [type |-> "fixed", lower |-> Null, upper |-> Null]}

\* the <joint> elements sampled: two names on every edge in every kind, a revolute
\* joint with a zero axis, and joints without a name, a parent or a child
JointSamples ==
    {JointElement(name, kind.type, edge[1], edge[2], AxisZ, kind.lower, kind.upper, 0) :
        name \in {"j1", "j2"}, edge \in EdgeSamples, kind \in KindSamples}
    \cup {JointElement("j1", "revolute", "base", "fr3_hand_tcp", <<0, 0, 0>>,
                       Some(-50000), Some(50000), 0),
          JointElement("", "revolute", "mid", "base", AxisZ, Null, Null, 0),
          JointElement("j1", "revolute", "", "base", AxisZ, Null, Null, 0),
          JointElement("j2", "revolute", "base", "", AxisZ, Null, Null, 0)}

\* the joint sequences of a sample: up to MaxJoints elements
JointListSamples == UNION {[1..n -> JointSamples] : n \in 0..MaxJoints}

\* the <visual> elements sampled: a Collada and an STL mesh the server has, a mesh
\* it does not have, a format without a loader, a package URI without a path, a
\* package without a mapping, and a visual without a mesh
VisualSamples ==
    {VisualElement(Some(MeshFile("package://",
                                 <<"franka_description", "meshes", "link0">>, ".dae"))),
     VisualElement(Some(MeshFile("/", <<"meshes", "hand">>, ".STL"))),
     VisualElement(Some(MeshFile("package://",
                                 <<"franka_description", "absent", "link1">>, ".dae"))),
     VisualElement(Some(MeshFile("./", <<"meshes", "link0">>, ".obj"))),
     VisualElement(Some(MeshFile("package://", <<"link0">>, ".dae"))),
     VisualElement(Some(MeshFile("package://",
                                 <<"other_description", "meshes", "link0">>, ".dae"))),
     VisualElement(Null)}

VisualListSamples == UNION {[1..n -> VisualSamples] : n \in 0..MaxVisuals}

\* documents that differ in their links and joints
StructureSamples ==
    {[xml |-> "ok", links |-> links, joints |-> joints] :
        links \in LinkListSamples, joints \in JointListSamples}

\* documents of one revolute joint that differ in the visuals of the root link and
\* of the end-effector link
VisualSamplesDocuments ==
    {[xml |-> "ok",
      links |-> <<LinkElement("base", rootVisuals),
                  LinkElement("fr3_hand_tcp", tcpVisuals)>>,
      joints |-> <<JointElement("j1", "revolute", "base", "fr3_hand_tcp", AxisZ,
                                Some(-50000), Some(50000), 0)>>] :
        rootVisuals \in VisualListSamples,
        tcpVisuals \in {<<>>} \cup {<<v>> : v \in VisualSamples}}

\* documents the XML parse gives up on
BrokenSamples ==
    {[xml |-> x, links |-> <<>>, joints |-> <<>>] : x \in {"parsererror", "norobot"}}

DocumentSamples == StructureSamples \cup VisualSamplesDocuments \cup BrokenSamples

InitLoad ==
    /\ InitComponent
    /\ urdfText = "sample"
    /\ controlChain = <<>>
    /\ callArgs \in DocumentSamples
    /\ lastEvent = "fetch"

LoadUnchanged ==
    UNCHANGED <<urdfText, loadState, disposed, loadedRobotRef, controlChain,
                activePadCommandRef, holdIntervalRef, trajectoryIntervalRef,
                trajectoryBasePoseRef, trajectoryConsecutiveFailuresRef,
                controlsEnabled, trajectoryRunning, padStatusText, timers,
                startAngles, lastArg, ranSolve, lastSolved, clearedKinds, callArgs,
                moves>>

\* parseUrdf(urdfText)
LoadParse ==
    /\ lastEvent = "fetch"
    /\ callResult' = parseUrdf(callArgs)
    /\ lastEvent' = "parseUrdf"
    /\ LoadUnchanged

\* findJointPathToLink(urdf, from, to) on the parsed document
LoadFindPath ==
    /\ lastEvent = "fetch"
    /\ parseUrdf(callArgs).ok
    /\ \E from \in LoadLinks, to \in LoadLinks :
         /\ ~RecursesForever(parseUrdf(callArgs), from)
         /\ callResult' =
              [from |-> from, to |-> to,
               path |-> findJointPathToLink(parseUrdf(callArgs), from, to)]
    /\ lastEvent' = "findJointPathToLink"
    /\ LoadUnchanged

\* loadFr3UrdfRobot() once the document is fetched
LoadRobot ==
    /\ lastEvent = "fetch"
    /\ callResult' = LoadDocument(callArgs)
    /\ lastEvent' = "loadFr3UrdfRobot"
    /\ LoadUnchanged

NextLoad == LoadParse \/ LoadFindPath \/ LoadRobot

SpecLoad == InitLoad /\ [][NextLoad]_vars

(***************************************************************************)
(* Solver-level specification: solveIkStep and solveIkToTargetWithRetries  *)
(* (lines 436-578) applied to a control chain and a target drawn from the  *)
(* samples below.                                                          *)
(***************************************************************************)
\* the longest control chain sampled
MaxChain == 2

\* metres the hand travels per radian of a joint at the end of a long lever arm
LongLever == 40

\* A sampled joint as the load or an earlier request left it: a limited joint and
\* a continuous joint that turn the hand, a joint that lifts it, a continuous joint
\* that carries it on a long lever, far from its zero angle, and a joint whose
\* limits exclude the angle 0 it is registered with (lines 690-702).
SolveJointSamples ==
    {[type |-> "revolute", lowerLimit |-> Some(-60000), upperLimit |-> Some(60000),
      pitch |-> 0, angle |-> a] : a \in {0, 60000}}
    \cup {[type |-> "continuous", lowerLimit |-> Null, upperLimit |-> Null,
           pitch |-> 0, angle |-> 0],
          [type |-> "continuous", lowerLimit |-> Null, upperLimit |-> Null,
           pitch |-> LongLever, angle |-> 3000000]}
    \cup {[type |-> "revolute", lowerLimit |-> Some(700000),
           upperLimit |-> Some(790398), pitch |-> 1, angle |-> a] :
             a \in {785398, 790398}}
    \cup {[type |-> "revolute", lowerLimit |-> Some(20000), upperLimit |-> Some(90000),
           pitch |-> 0, angle |-> a] : a \in {0}}

SolveJointName(index) == <<"fr3_joint1", "fr3_joint2", "fr3_joint3">>[index]

\* the JointControl of a sampled joint at position index of the chain
SolveJoint(sample, index) ==
    [name |-> SolveJointName(index), type |-> sample.type,
     lowerLimit |-> sample.lowerLimit, upperLimit |-> sample.upperLimit,
     pitch |-> sample.pitch, angle |-> sample.angle]

\* the chains sampled, the empty chain among them
ChainSamples ==
    UNION {{[i \in 1..n |-> SolveJoint(joints[i], i)] :
               joints \in [1..n -> SolveJointSamples]} : n \in 0..MaxChain}

\* the targets sampled, as offsets from the pose of the chain: a pad step up and
\* down the axis, a pad yaw step, the yaw step of a hold tick, and a pad step off
\* the axis
OffsetSamples ==
    {[z |-> z, yaw |-> yaw, res |-> res] :
        z \in {0, TRANSLATION_STEP_METERS, -TRANSLATION_STEP_METERS},
        yaw \in {0, YAW_STEP_RADIANS,
                 Quot(YAW_STEP_RADIANS * PAD_HOLD_STEP_SCALE, ScaleDen)},
        res \in {0, TRANSLATION_STEP_METERS}}

\* the retryScales the callers pass (lines 822, 903) and the default of line 537
ScaleSamples ==
    {PAD_COMMAND_RETRY_SCALES, TRAJECTORY_TARGET_RETRY_SCALES, <<ScaleDen>>}

\* the target at the sampled offset from the pose of the chain
SolveTarget(chain, offset) ==
    [z |-> getWorldPose(chain).z + offset.z,
     yaw |-> getWorldPose(chain).yaw + offset.yaw,
     res |-> offset.res]

InitSolve ==
    /\ InitComponent
    /\ urdfText = "none"
    /\ controlChain \in ChainSamples
    /\ \E offset \in OffsetSamples :
         callArgs = [target |-> SolveTarget(controlChain, offset), offset |-> offset]
    /\ lastEvent = "sample"

SolveUnchanged ==
    UNCHANGED <<urdfText, loadState, disposed, loadedRobotRef, activePadCommandRef,
                holdIntervalRef, trajectoryIntervalRef, trajectoryBasePoseRef,
                trajectoryConsecutiveFailuresRef, controlsEnabled,
                trajectoryRunning, padStatusText, timers, lastArg,
                ranSolve, lastSolved, clearedKinds, callArgs, moves>>

\* the chain is as the restore of line 564 leaves it, which is how solveIkStep
\* finds it at its only call (line 569)
Restored(chain) == restoreJointAngles(chain, snapshotJointAngles(chain)) = chain

\* solveIkStep(robot, endEffector, controlChain, target): the joints are left as
\* the solver left them
SolveStep ==
    /\ lastEvent = "sample"
    /\ Restored(controlChain)
    /\ callResult' = solveIkStep(controlChain, callArgs.target)
    /\ controlChain' = callResult'.chain
    /\ startAngles' = snapshotJointAngles(controlChain)
    /\ lastEvent' = "solveIkStep"
    /\ SolveUnchanged

\* solveIkToTargetWithRetries(loadedRobot, target, retryScales)
SolveRetries ==
    /\ lastEvent = "sample"
    /\ \E retryScales \in ScaleSamples :
         /\ callResult' =
              [retryScales |-> retryScales,
               startAngles |-> snapshotJointAngles(controlChain),
               startPose |-> getWorldPose(controlChain),
               out |-> solveIkToTargetWithRetries(controlChain, callArgs.target,
                                                  retryScales)]
         /\ controlChain' = callResult'.out.chain
    /\ startAngles' = snapshotJointAngles(controlChain)
    /\ lastEvent' = "solveIkToTargetWithRetries"
    /\ SolveUnchanged

\* one round of the Jacobian loop (lines 472-501) in the first iteration of
\* solveIkStep, or in the first iteration of the call after an earlier request
SolveProbe ==
    /\ lastEvent \in {"sample", "solveIkToTargetWithRetries"}
    /\ Restored(controlChain)
    /\ \E index \in 1..Len(controlChain) :
         callResult' =
            [index |-> index,
             before |-> controlChain,
             probe |-> JacobianProbe(controlChain, getWorldPose(controlChain),
                                     PoseError(getWorldPose(controlChain),
                                               callArgs.target),
                                     index)]
    /\ controlChain' = callResult'.probe.chain
    /\ startAngles' = snapshotJointAngles(controlChain)
    /\ lastEvent' = "jacobianProbe"
    /\ SolveUnchanged

\* one iteration of the loop of line 447, likewise
SolvePass ==
    /\ lastEvent \in {"sample", "solveIkToTargetWithRetries"}
    /\ Restored(controlChain)
    /\ Len(controlChain) > 0
    /\ callResult' =
          [before |-> controlChain,
           pass |-> IkPass([chain |-> controlChain, updates |-> 0, probes |-> 0,
                            outcome |-> "moved"],
                           callArgs.target)]
    /\ controlChain' = callResult'.pass.chain
    /\ startAngles' = snapshotJointAngles(controlChain)
    /\ lastEvent' = "iteration"
    /\ SolveUnchanged

NextSolve == SolveStep \/ SolveRetries \/ SolveProbe \/ SolvePass

SpecSolve == InitSolve /\ [][NextSolve]_vars

(***************************************************************************)
(* Claims about the joint controls.                                        *)
(***************************************************************************)
TheJoint == controlChain[1]
JointAssigned == lastEvent \in {"setJointAngle", "restoreJointAngles"}

\* C1 as stated: after any setJointAngle call a non-continuous joint's stored angle
\* is at least its lower bound and at most its upper bound, for each bound present,
\* whatever the declared bounds.
C1_AngleWithinDeclaredBounds ==
    (JointAssigned /\ TheJoint.type # "continuous") =>
        /\ TheJoint.lowerLimit # Null => TheJoint.lowerLimit[1] <= TheJoint.angle
        /\ TheJoint.upperLimit # Null => TheJoint.angle <= TheJoint.upperLimit[1]

\* C1 amended: after any setJointAngle call a non-continuous joint's stored angle is
\* at most its upper bound when that is present, and at least its lower bound when
\* that is present and does not exceed a present upper bound.
C1_AngleWithinConsistentBounds ==
    (JointAssigned /\ TheJoint.type # "continuous") =>
        /\ TheJoint.upperLimit # Null => TheJoint.angle <= TheJoint.upperLimit[1]
        /\ (/\ TheJoint.lowerLimit # Null
            /\ (TheJoint.upperLimit = Null
                \/ TheJoint.lowerLimit[1] <= TheJoint.upperLimit[1]))
           => TheJoint.lowerLimit[1] <= TheJoint.angle

\* C1 witness: a limited joint with both bounds was asked for an angle above its
\* upper bound and stores the bound.
C1_Witness ==
    /\ lastEvent = "setJointAngle"
    /\ TheJoint.type = "revolute"
    /\ TheJoint.lowerLimit # Null /\ TheJoint.upperLimit # Null
    /\ TheJoint.lowerLimit[1] < TheJoint.upperLimit[1]
    /\ lastArg > TheJoint.upperLimit[1]
    /\ TheJoint.angle = TheJoint.upperLimit[1]

\* C2: a continuous joint stores exactly the requested angle whatever limits it
\* carries: clampJointAngle(joint, a) = a for every a.
C2_ContinuousPassThrough ==
    TheJoint.type = "continuous" =>
        /\ \A a \in AngleSamples : clampJointAngle(TheJoint, a) = a
        /\ lastEvent = "setJointAngle" => TheJoint.angle = lastArg

\* C2 witness: a continuous joint carrying both limits stores a requested angle
\* that lies above its upper limit.
C2_Witness ==
    /\ lastEvent = "setJointAngle"
    /\ TheJoint.type = "continuous"
    /\ TheJoint.lowerLimit # Null /\ TheJoint.upperLimit # Null
    /\ lastArg > TheJoint.upperLimit[1]
    /\ TheJoint.angle = lastArg

\* C3: clampJointAngle is idempotent for every joint type and every combination of
\* present and absent bounds.
C3_ClampIdempotent ==
    \A a \in AngleSamples :
        clampJointAngle(TheJoint, clampJointAngle(TheJoint, a))
            = clampJointAngle(TheJoint, a)

\* C3 witness: a joint whose lower bound exceeds its upper bound was asked for an
\* angle below both and stores a clamped value; clamping that value again keeps it.
C3_Witness ==
    /\ lastEvent = "setJointAngle"
    /\ TheJoint.type = "revolute"
    /\ TheJoint.lowerLimit # Null /\ TheJoint.upperLimit # Null
    /\ TheJoint.lowerLimit[1] > TheJoint.upperLimit[1]
    /\ lastArg < TheJoint.upperLimit[1]
    /\ TheJoint.angle # lastArg
    /\ clampJointAngle(TheJoint, TheJoint.angle) = TheJoint.angle

\* C4 as stated: after snapshotJointAngles, arbitrary angle changes and
\* restoreJointAngles with that snapshot, every joint's angle equals its value at
\* snapshot time, from any state of the chain including the one right after tree
\* build.
C4_SnapshotRestoreRoundTrip ==
    lastEvent = "restoreJointAngles" => snapshotJointAngles(controlChain) = startAngles


(***************************************************************************)
(* Claims about the component's loops.                                     *)
(***************************************************************************)
HoldTimerLive == \E t \in timers : t.kind = "hold"
TrajectoryTimerLive == \E t \in timers : t.kind = "trajectory"
FailedRequest == ranSolve /\ ~lastSolved
PadEvents == {"pointerdown", "holdTick", "keyboardClick"}

\* C5 as stated: when a handler's motion request (solveIkToTargetWithRetries)
\* returns false, every joint angle of the control chain equals its value
\* immediately before the call.
C5_FailedRequestLeavesAngles ==
    [][(ranSolve' /\ ~lastSolved' /\ Len(controlChain') = Len(controlChain))
          => snapshotJointAngles(controlChain') = snapshotJointAngles(controlChain)]_vars

\* C6: in every reachable state the hold-repeat interval and the trajectory
\* interval are not both live, neither among the window's intervals nor in the
\* component's refs.
C6_TimersMutuallyExclusive ==
    /\ ~(HoldTimerLive /\ TrajectoryTimerLive)
    /\ ~(holdIntervalRef # 0 /\ trajectoryIntervalRef # 0)

\* C6 witness: a press started a hold while the trajectory was running; the press
\* cleared the trajectory interval and the hold interval is live.
C6_Witness ==
    /\ lastEvent = "pointerdown"
    /\ "trajectory" \in clearedKinds
    /\ HoldTimerLive

\* C7 as stated: whenever a pad command has been executed against the joints, by a
\* press, a hold tick or a keyboard activation, no trajectory interval is live.
C7_NoTrajectoryWhilePadCommandRuns ==
    (lastEvent \in PadEvents /\ ranSolve) => ~TrajectoryTimerLive

\* C8: the trajectory tick whose solve is the 14th consecutive failure clears the
\* trajectory interval, sets trajectoryRunning false and drops the base pose; a
\* trajectory tick runs a solve only from a state with a live trajectory interval
\* and a base pose, and only startDefaultTrajectory brings such an interval to life.
C8_TrajectoryTermination ==
    [][/\ (/\ lastEvent' = "trajectoryTick" /\ ranSolve' /\ ~lastSolved'
           /\ trajectoryConsecutiveFailuresRef
                = TRAJECTORY_MAX_CONSECUTIVE_FAILURES - 1)
          => /\ ~TrajectoryTimerLive'
             /\ trajectoryIntervalRef' = 0
             /\ ~trajectoryRunning'
             /\ trajectoryBasePoseRef' = Null
       /\ (lastEvent' = "trajectoryTick" /\ ranSolve')
          => (TrajectoryTimerLive /\ trajectoryBasePoseRef # Null)
       /\ (~TrajectoryTimerLive /\ TrajectoryTimerLive')
          => lastEvent' = "startTrajectory"]_vars

\* C8 witness: a trajectory tick failed, cleared the trajectory interval and paused
\* the trajectory.
C8_Witness ==
    /\ lastEvent = "trajectoryTick"
    /\ FailedRequest
    /\ "trajectory" \in clearedKinds
    /\ ~trajectoryRunning
    /\ trajectoryBasePoseRef = Null
    /\ padStatusText = "trajectory paused"

\* C9: a press leaves a hold interval only if its initial step succeeded; a hold
\* tick whose solve fails leaves no hold interval and no active command; and a
\* release (pointerup, pointercancel, lost pointer capture, window blur) leaves no
\* hold interval and no active command.
C9_HoldLoopLifecycle ==
    /\ (lastEvent = "pointerdown" /\ (HoldTimerLive \/ holdIntervalRef # 0))
          => (ranSolve /\ lastSolved)
    /\ (lastEvent = "holdTick" /\ FailedRequest)
          => (~HoldTimerLive /\ holdIntervalRef = 0 /\ activePadCommandRef = "null")
    /\ lastEvent = "release"
          => (~HoldTimerLive /\ holdIntervalRef = 0 /\ activePadCommandRef = "null")

\* C9 witness: a hold whose initial step succeeded ran a tick whose solve failed;
\* the tick cleared the hold interval.
C9_Witness ==
    /\ lastEvent = "holdTick"
    /\ FailedRequest
    /\ "hold" \in clearedKinds
    /\ moves > 0

\* C10 as stated: after any motion request of the hold loop or of the trajectory
\* loop that failed, that loop is no longer active and the controls are enabled.
C10_FailedRequestStopsItsLoop ==
    /\ (lastEvent \in {"pointerdown", "holdTick"} /\ FailedRequest)
          => (~HoldTimerLive /\ activePadCommandRef = "null" /\ controlsEnabled)
    /\ (lastEvent = "trajectoryTick" /\ FailedRequest)
          => (~TrajectoryTimerLive /\ ~trajectoryRunning /\ controlsEnabled)

\* C10 amended: after a failed motion request of the hold loop (the initial step
\* of a press or a hold tick) the hold loop is no longer active; after a failed
\* request of a trajectory tick the trajectory loop is still active with 1 to 13
\* consecutive failures counted, or, the failure having been the 14th in a row, it
\* is no longer active; in both cases the controls are enabled.
C10_FailedRequestStopsHoldOrCounts ==
    /\ (lastEvent \in {"pointerdown", "holdTick"} /\ FailedRequest)
          => (~HoldTimerLive /\ activePadCommandRef = "null" /\ controlsEnabled)
    /\ (lastEvent = "trajectoryTick" /\ FailedRequest)
          => /\ controlsEnabled
             /\ \/ /\ TrajectoryTimerLive /\ trajectoryRunning
                   /\ trajectoryConsecutiveFailuresRef
                        \in 1..(TRAJECTORY_MAX_CONSECUTIVE_FAILURES - 1)
                \/ /\ ~TrajectoryTimerLive /\ ~trajectoryRunning
                   /\ "trajectory" \in clearedKinds
                   /\ trajectoryConsecutiveFailuresRef = 0

\* C10 witness: a trajectory tick's request failed for the first time and the
\* trajectory loop is still running.
C10_Witness ==
    /\ lastEvent = "trajectoryTick"
    /\ FailedRequest
    /\ trajectoryConsecutiveFailuresRef = 1
    /\ TrajectoryTimerLive
    /\ trajectoryRunning

(***************************************************************************)
(* Claims about the parse and the load.                                    *)
(***************************************************************************)
\* the mesh files the visuals of the drawn document name
DocumentMeshFiles ==
    {callArgs.links[i].visuals[k].meshFilename[1] :
        <<i, k>> \in {p \in (1..Len(callArgs.links)) \X (1..(MaxVisuals + 1)) :
                        /\ p[2] <= Len(callArgs.links[p[1]].visuals)
                        /\ callArgs.links[p[1]].visuals[p[2]].meshFilename # Null}}

\* the drawn document with the visuals taken off its links
DocumentWithoutVisuals ==
    [callArgs EXCEPT !.links = [i \in 1..Len(callArgs.links) |->
                                   LinkElement(callArgs.links[i].name, <<>>)]]

\* the mesh file fails in one of the four ways: invalid package URI, missing
\* package mapping, unsupported extension, load error
MeshFileFails(file) ==
    \/ ~resolveMeshUrl(file).ok
    \/ ~MeshFormatSupported(resolveMeshUrl(file).url)
    \/ ~MeshLoads(resolveMeshUrl(file).url)

\* C11 as stated: a failure of a visual mesh of any of the four kinds never aborts
\* the load: a load that succeeds without the visuals succeeds with them, every
\* failing mesh is shown as a placeholder, and its reference is in missingMeshes.
C11_MeshFailureNeverAborts ==
    (/\ lastEvent = "loadFr3UrdfRobot"
     /\ LoadDocument(DocumentWithoutVisuals).ok)
        => /\ callResult.ok
           /\ \A file \in DocumentMeshFiles :
                 MeshFileFails(file) =>
                    /\ resolveMeshUrl(file).ok
                    /\ resolveMeshUrl(file).url \in callResult.missingMeshes
                    /\ \E k \in 1..Len(callResult.visuals) :
                          /\ callResult.visuals[k].url = resolveMeshUrl(file).url
                          /\ callResult.visuals[k].placeholder

\* C12: after a fatal load error the controls are not enabled, no loaded robot is
\* stored and no hold or trajectory interval exists, in every state from then on;
\* and enabled controls imply that the load resolved and, while the component is
\* mounted, that a loaded robot with a non-empty control chain is stored.
C12_FatalLoadKeepsControlsOff ==
    /\ loadState = "rejected"
          => /\ ~controlsEnabled
             /\ ~loadedRobotRef
             /\ timers = {}
             /\ holdIntervalRef = 0 /\ trajectoryIntervalRef = 0
             /\ ~trajectoryRunning
    /\ controlsEnabled
          => /\ loadState = "resolved"
             /\ loadFr3UrdfRobot(urdfText).ok
             /\ ~disposed => (loadedRobotRef /\ Len(controlChain) > 0)

\* C12 witness: the load of a description whose end-effector hangs on a fixed joint
\* (an empty controllable chain) was rejected.
C12_Witness ==
    /\ loadState = "rejected"
    /\ lastEvent = "loadRejected"
    /\ loadFr3UrdfRobot(urdfText).error = "No controllable joints"
    /\ padStatusText = "control pad unavailable"

\* the names the <link> elements of the drawn document declare
DeclaredLinks == {callArgs.links[i].name : i \in 1..Len(callArgs.links)} \ {""}

\* the <joint> elements of the drawn document that have a name, a parent and a child
WellFormedJoints ==
    SelectSeq(callArgs.joints,
              LAMBDA e : e.name # "" /\ e.parent # "" /\ e.child # "")

\* the links that are the child of an accepted joint
AcceptedChildren == {WellFormedJoints[i].child : i \in 1..Len(WellFormedJoints)}

\* C13: when a declared link Z is no accepted joint's child while every other
\* declared link is one, parseUrdf returns rootLink = Z; when every declared link is
\* an accepted joint's child, parseUrdf fails with the root-link error.
C13_RootDetection ==
    (lastEvent = "parseUrdf" /\ callArgs.xml = "ok") =>
        /\ \A z \in DeclaredLinks :
              (/\ z \notin AcceptedChildren
               /\ \A other \in DeclaredLinks \ {z} : other \in AcceptedChildren)
                 => (callResult.ok /\ callResult.rootLink = z)
        /\ DeclaredLinks \subseteq AcceptedChildren
              => (~callResult.ok
                  /\ callResult.error = "Could not find root link in URDF")

\* C13 witness: the root is the link declared last; the two links declared before
\* it are children of the two joints.
C13_Witness ==
    /\ lastEvent = "parseUrdf"
    /\ callResult.ok
    /\ callResult.rootLink = "base"
    /\ callArgs.links[1].name = "fr3_hand_tcp"
    /\ AcceptedChildren = {"mid", "fr3_hand_tcp"}

\* the parsed document is a tree below every link: no link is the child of two
\* accepted joints and no link lies below itself
ParsedTree(urdf) ==
    /\ urdf.ok
    /\ \A i, k \in 1..Len(urdf.joints) :
          urdf.joints[i].child = urdf.joints[k].child => i = k
    /\ \A l \in LoadLinks : l \notin Descendants(urdf, l)

\* path is a downward chain of accepted joints from link `from` to link `to`
DownwardPath(urdf, path, from, to) ==
    /\ Len(path) > 0
    /\ \A i \in 1..Len(path) :
          \E k \in 1..Len(urdf.joints) : urdf.joints[k] = path[i]
    /\ path[1].parent = from
    /\ path[Len(path)].child = to
    /\ \A i \in 1..(Len(path) - 1) : path[i].child = path[i + 1].parent

\* C14: on a tree findJointPathToLink(urdf, a, b) returns the empty path when
\* a = b, the chain of joints leading down from a to b when b lies below a (first
\* parent a, last child b, each child the next joint's parent), and null when b
\* does not lie below a.
C14_PathOnTree ==
    (lastEvent = "findJointPathToLink" /\ ParsedTree(parseUrdf(callArgs))) =>
        IF callResult.from = callResult.to
        THEN callResult.path = <<TRUE, <<>>>>
        ELSE IF callResult.to \in Descendants(parseUrdf(callArgs), callResult.from)
        THEN /\ callResult.path[1]
             /\ DownwardPath(parseUrdf(callArgs), callResult.path[2],
                             callResult.from, callResult.to)
        ELSE callResult.path = <<FALSE>>

\* C14 witness: on a tree of two joints the path from the root to the end-effector
\* has both joints.
C14_Witness ==
    /\ lastEvent = "findJointPathToLink"
    /\ ParsedTree(parseUrdf(callArgs))
    /\ callResult.from = "base" /\ callResult.to = "fr3_hand_tcp"
    /\ callResult.path[1]
    /\ Len(callResult.path[2]) = 2

\* C15 as stated: every structure parseUrdf returns is a tree: the returned root is
\* the only link that is no joint's child, no link is the child of two joints, and
\* the recursion of buildLinkTree and findJointPathToLink from the root terminates.
C15_ParsedStructureIsTree ==
    (lastEvent = "parseUrdf" /\ callResult.ok) =>
        /\ {callResult.links[i].name : i \in 1..Len(callResult.links)}
              \ callResult.childLinks = {callResult.rootLink}
        /\ \A i, k \in 1..Len(callResult.joints) :
              callResult.joints[i].child = callResult.joints[k].child => i = k
        /\ ~RecursesForever(callResult, callResult.rootLink)

\* the drawn document with only its well-formed <joint> elements
DocumentOfWellFormedJoints == [callArgs EXCEPT !.joints = WellFormedJoints]

\* C16: a <joint> without a name, a parent or a child is skipped without an error:
\* the parse returns what it returns for the document without such joints; the
\* joints it returns are the well-formed ones in document order, none of the others
\* is among the joints of any parent, and childLinks holds the children of the
\* well-formed joints only.
C16_MalformedJointsSkipped ==
    (lastEvent = "parseUrdf" /\ callArgs.xml = "ok") =>
        /\ callResult = parseUrdf(DocumentOfWellFormedJoints)
        /\ callResult.ok =>
              /\ callResult.joints = WellFormedJoints
              /\ callResult.childLinks = AcceptedChildren
              /\ \A l \in LoadLinks \cup {""} :
                    \A i \in 1..Len(JointsByParent(callResult, l)) :
                        /\ JointsByParent(callResult, l)[i].name # ""
                        /\ JointsByParent(callResult, l)[i].child # ""
                        /\ l # ""

\* C16 witness: of two joints the one without a name was skipped and the other
\* returned; the skipped joint's child is the root.
C16_Witness ==
    /\ lastEvent = "parseUrdf"
    /\ callResult.ok
    /\ Len(callArgs.joints) = 2
    /\ Len(callResult.joints) = 1
    /\ \E i \in 1..2 : callArgs.joints[i].name = ""
                        /\ callArgs.joints[i].child = callResult.rootLink

\* the joints of the root-to-end-effector path of the parsed document that are
\* revolute or continuous with a non-zero axis, in path order
ControllablePath(urdf) ==
    SelectSeq(findJointPathToLink(urdf, urdf.rootLink, END_EFFECTOR_LINK)[2],
              LAMBDA j : /\ j.type \in {"revolute", "continuous"}
                         /\ j.axis # <<0, 0, 0>>)

\* the control is the registration of the joint, with its declared limits
ControlOf(control, joint) ==
    /\ control.name = joint.name
    /\ control.type = joint.type
    /\ control.lowerLimit = joint.lowerLimit
    /\ control.upperLimit = joint.upperLimit

\* C17 as stated: the load of a parsed description succeeds exactly when the
\* end-effector hangs below the root and some joint of the path to it is revolute
\* or continuous with a non-zero axis, and the control chain is then those joints
\* in path order, each with its declared type and limits.
C17_ChainIsControllablePath ==
    (/\ lastEvent = "loadFr3UrdfRobot"
     /\ parseUrdf(callArgs).ok
     /\ ~RecursesForever(parseUrdf(callArgs), parseUrdf(callArgs).rootLink))
       => IF /\ findJointPathToLink(parseUrdf(callArgs), parseUrdf(callArgs).rootLink,
                                    END_EFFECTOR_LINK)[1]
             /\ ControllablePath(parseUrdf(callArgs)) # <<>>
          THEN /\ callResult.ok
               /\ Len(callResult.controlChain)
                     = Len(ControllablePath(parseUrdf(callArgs)))
               /\ \A i \in 1..Len(callResult.controlChain) :
                     ControlOf(callResult.controlChain[i],
                               ControllablePath(parseUrdf(callArgs))[i])
          ELSE ~callResult.ok

(***************************************************************************)
(* Claims about the solver.                                                *)
(***************************************************************************)
\* the passes of the last solveIkStep that went past the convergence check of
\* lines 454-459
PassesPastCheck(result) ==
    IF result.converged THEN result.iterations - 1 ELSE result.iterations

\* C18 as stated: solveIkStep runs at most IK_MAX_ITERATIONS iterations, every
\* iteration probes each joint of the chain exactly once, and
\* solveIkToTargetWithRetries calls solveIkStep at most once per retry scale.
C18_BoundedWork ==
    /\ lastEvent = "solveIkStep"
         => /\ callResult.iterations <= IK_MAX_ITERATIONS
            /\ callResult.probes = callResult.iterations * Len(controlChain)
    /\ lastEvent = "solveIkToTargetWithRetries"
         => callResult.out.attempts <= Len(callResult.retryScales)

\* C18 amended: solveIkStep runs at most IK_MAX_ITERATIONS iterations, every
\* iteration that does not return at the convergence check probes each joint of
\* the chain exactly once and the iteration that returns there probes none, and
\* solveIkToTargetWithRetries calls solveIkStep at most once per retry scale.
C18_BoundedWorkPastCheck ==
    /\ lastEvent = "solveIkStep"
         => /\ callResult.iterations <= IK_MAX_ITERATIONS
            /\ callResult.probes = PassesPastCheck(callResult) * Len(controlChain)
    /\ lastEvent = "solveIkToTargetWithRetries"
         => /\ callResult.out.attempts <= Len(callResult.retryScales)
            /\ Len(callResult.out.starts) = callResult.out.attempts

\* a chain of two joints used up the iteration budget without converging
C18_Witness ==
    /\ lastEvent = "solveIkStep"
    /\ Len(controlChain) = MaxChain
    /\ callResult.iterations = IK_MAX_ITERATIONS
    /\ ~callResult.converged
    /\ callResult.probes = IK_MAX_ITERATIONS * MaxChain

\* the error of the pose the last solveIkStep left against the target it was given
ErrorAtReturn == PoseError(getWorldPose(controlChain), callArgs.target)

\* C19: solveIkStep returns true only if the pose at return is within tolerance of
\* the target: within the tolerances when it returned from the convergence check,
\* within twice the tolerances when it returned from the final check; and it
\* returns false for an empty chain.
C19_SolvedMeansWithinTolerance ==
    lastEvent = "solveIkStep"
       => /\ callResult.solved
               => /\ ErrorAtReturn.res <= IK_FINAL_RELAX * IK_POSITION_TOLERANCE
                  /\ Abs(ErrorAtReturn.z) <= IK_FINAL_RELAX * IK_POSITION_TOLERANCE
                  /\ ErrorAtReturn.res * ErrorAtReturn.res
                        + ErrorAtReturn.z * ErrorAtReturn.z
                        <= (IK_FINAL_RELAX * IK_POSITION_TOLERANCE)
                              * (IK_FINAL_RELAX * IK_POSITION_TOLERANCE)
                  /\ Abs(ErrorAtReturn.rot) * RotTolDen
                        <= IK_FINAL_RELAX * IK_ROTATION_TOLERANCE
                  /\ callResult.converged
                        => /\ ErrorAtReturn.res * ErrorAtReturn.res
                                + ErrorAtReturn.z * ErrorAtReturn.z
                                <= IK_POSITION_TOLERANCE * IK_POSITION_TOLERANCE
                           /\ Abs(ErrorAtReturn.rot) * RotTolDen
                                <= IK_ROTATION_TOLERANCE
          /\ Len(callResult.chain) = 0 => ~callResult.solved

\* the solver moved the joints and returned true from the final check, the pose
\* within twice the tolerances but not within them
C19_Witness ==
    /\ lastEvent = "solveIkStep"
    /\ callResult.solved
    /\ ~callResult.converged
    /\ callResult.iterations > 0
    /\ ~WithinTolerance(ErrorAtReturn, IK_NO_RELAX)
    /\ WithinTolerance(ErrorAtReturn, IK_FINAL_RELAX)

\* the chain of the last solveIkToTargetWithRetries with its joints at `angles`
ChainAt(angles) ==
    [i \in 1..Len(controlChain) |-> [controlChain[i] EXCEPT !.angle = angles[i]]]

\* the attempt that starts from `angles` with the index-th retry scale
AttemptFrom(angles, index) ==
    solveIkStep(ChainAt(angles),
                BlendTarget(callResult.startPose, callArgs.target,
                            callResult.retryScales[index]))

\* C20: solveIkToTargetWithRetries tries the scales in list order; every attempt
\* starts from the joint angles of before the call; the attempts before the last
\* failed and no scale is tried after a success; on success the joints are as the
\* winning attempt left them.
C20_RetryOrdering ==
    lastEvent = "solveIkToTargetWithRetries"
       => /\ Len(callResult.out.starts) = callResult.out.attempts
          /\ callResult.out.attempts \in 1..Len(callResult.retryScales)
          /\ \A k \in 1..callResult.out.attempts :
                /\ callResult.out.starts[k] = callResult.startAngles
                /\ k < callResult.out.attempts
                      => ~AttemptFrom(callResult.startAngles, k).solved
          /\ callResult.out.solved
                => /\ AttemptFrom(callResult.startAngles,
                                  callResult.out.attempts).solved
                   /\ controlChain
                         = AttemptFrom(callResult.startAngles,
                                       callResult.out.attempts).chain
          /\ ~callResult.out.solved
                => /\ callResult.out.attempts = Len(callResult.retryScales)
                   /\ ~AttemptFrom(callResult.startAngles,
                                   callResult.out.attempts).solved

\* C21: a round of the Jacobian loop leaves the joints as it found them: the probed
\* joint has the angle it had before the probe and no other joint is touched, at
\* and inside the limits alike.
C21_ProbeLeavesJoints ==
    lastEvent = "jacobianProbe"
       => /\ Len(controlChain) = Len(callResult.before)
          /\ \A i \in 1..Len(controlChain) : controlChain[i] = callResult.before[i]

\* the last joint of a chain was probed while at its upper limit, where the
\* perturbed angle is clamped back to the limit
C21_Witness ==
    /\ lastEvent = "jacobianProbe"
    /\ Len(controlChain) = MaxChain
    /\ callResult.index = MaxChain
    /\ callResult.before[callResult.index].upperLimit
          = Some(callResult.before[callResult.index].angle)
    /\ callResult.probe.perturbedAngle = callResult.before[callResult.index].angle

\* the raw updates of the iteration that started from the chain `before`
RawUpdates(before) ==
    JacobianLoop(before, getWorldPose(before),
                 PoseError(getWorldPose(before), callArgs.target), 1, <<>>).jointDeltas

\* C22: in an iteration that updates the joints, every joint's angle changes by at
\* most IK_MAX_JOINT_DELTA, and its new angle is the limit-clamped value of its
\* previous angle plus the gain-scaled, step-clamped update; over a whole call of
\* solveIkStep no joint moves by more than IK_MAX_ITERATIONS times that step.
C22_StepBound ==
    /\ (lastEvent = "iteration" /\ callResult.pass.outcome # "converged")
          => \A i \in 1..Len(controlChain) :
                /\ Abs(controlChain[i].angle - callResult.before[i].angle)
                      <= IK_MAX_JOINT_DELTA
                /\ controlChain[i].angle
                      = clampJointAngle(
                           callResult.before[i],
                           callResult.before[i].angle
                              + Clamp(MulDiv(RawUpdates(callResult.before)[i],
                                             IK_GAIN, GainDen),
                                      -IK_MAX_JOINT_DELTA, IK_MAX_JOINT_DELTA))
    /\ lastEvent = "solveIkStep"
          => \A i \in 1..Len(controlChain) :
                Abs(controlChain[i].angle - startAngles[i])
                   <= IK_MAX_ITERATIONS * IK_MAX_JOINT_DELTA

\* an iteration in which a joint's raw update exceeded the step and the joint
\* moved by exactly IK_MAX_JOINT_DELTA
C22_Witness ==
    /\ lastEvent = "iteration"
    /\ callResult.pass.outcome = "moved"
    /\ \E i \in 1..Len(controlChain) :
          /\ Abs(MulDiv(RawUpdates(callResult.before)[i], IK_GAIN, GainDen))
                > IK_MAX_JOINT_DELTA
          /\ Abs(controlChain[i].angle - callResult.before[i].angle)
                = IK_MAX_JOINT_DELTA

\* the pass the loop would run next from the joints as they are
NextPass ==
    IkPass([chain |-> controlChain, updates |-> 0, probes |-> 0, outcome |-> "moved"],
           callArgs.target)

\* C23: an iteration that is not converged ends the loop exactly when it changed no
\* joint; a call that ended so ran no further iteration (the joints are as that
\* iteration found them, and it was at most the last of the budget) and returns
\* the verdict of the relaxed check on the pose it left; a call that neither
\* converged nor stagnated used the whole budget.
C23_Stagnation ==
    /\ (lastEvent = "iteration" /\ callResult.pass.outcome # "converged")
          => (callResult.pass.outcome = "stalled"
                 <=> \A i \in 1..Len(controlChain) :
                        controlChain[i].angle = callResult.before[i].angle)
    /\ (lastEvent = "solveIkStep" /\ callResult.stalled)
          => /\ callResult.iterations \in 1..IK_MAX_ITERATIONS
             /\ NextPass.outcome = "stalled"
             /\ NextPass.chain = controlChain
             /\ callResult.solved
                   <=> /\ Abs(ErrorAtReturn.z) <= IK_FINAL_RELAX * IK_POSITION_TOLERANCE
                       /\ ErrorAtReturn.res <= IK_FINAL_RELAX * IK_POSITION_TOLERANCE
                       /\ ErrorAtReturn.res * ErrorAtReturn.res
                             + ErrorAtReturn.z * ErrorAtReturn.z
                             <= (IK_FINAL_RELAX * IK_POSITION_TOLERANCE)
                                   * (IK_FINAL_RELAX * IK_POSITION_TOLERANCE)
                       /\ Abs(ErrorAtReturn.rot) * RotTolDen
                             <= IK_FINAL_RELAX * IK_ROTATION_TOLERANCE
    /\ (lastEvent = "solveIkStep" /\ Len(controlChain) > 0
          /\ ~callResult.stalled /\ ~callResult.converged)
          => callResult.iterations = IK_MAX_ITERATIONS

\* a call that stagnated in its first iteration returned true although no joint
\* moved and the pose is not within the tolerances
C23_Witness ==
    /\ lastEvent = "solveIkStep"
    /\ callResult.stalled
    /\ callResult.iterations = 1
    /\ callResult.solved
    /\ snapshotJointAngles(controlChain) = startAngles
    /\ ~WithinTolerance(ErrorAtReturn, IK_NO_RELAX)

(***************************************************************************)
(* Claims about the loops and the load, continued.                         *)
(***************************************************************************)
\* the step is a trajectory tick that ran a motion request
TickStep == lastEvent' = "trajectoryTick" /\ ranSolve' /\ vars' # vars

\* C24: between ticks the failure counter lies in 0 .. 13; a failed tick adds one
\* to it, and stops the loop with the counter back at 0 when that makes 14; a
\* successful tick sets it to 0; starting and stopping the trajectory set it to 0;
\* nothing else changes it, so the loop is halted by a tick only after 14 failed
\* ticks in a row.
C24_FailureCounter ==
    [][/\ trajectoryConsecutiveFailuresRef \in
             0..(TRAJECTORY_MAX_CONSECUTIVE_FAILURES - 1)
       /\ trajectoryConsecutiveFailuresRef' \in
             0..(TRAJECTORY_MAX_CONSECUTIVE_FAILURES - 1)
       /\ (TickStep /\ ~lastSolved')
             => IF trajectoryConsecutiveFailuresRef + 1
                     = TRAJECTORY_MAX_CONSECUTIVE_FAILURES
                THEN /\ trajectoryConsecutiveFailuresRef' = 0
                     /\ ~trajectoryRunning'
                     /\ trajectoryIntervalRef' = 0
                ELSE /\ trajectoryConsecutiveFailuresRef'
                           = trajectoryConsecutiveFailuresRef + 1
                     /\ trajectoryRunning'
                     /\ trajectoryIntervalRef' = trajectoryIntervalRef
       /\ (TickStep /\ lastSolved')
             => /\ trajectoryConsecutiveFailuresRef' = 0
                /\ trajectoryRunning'
                /\ trajectoryIntervalRef' = trajectoryIntervalRef
       /\ lastEvent' \in {"startTrajectory", "stopTrajectory"}
             => trajectoryConsecutiveFailuresRef' = 0
       /\ ~TickStep
             => trajectoryConsecutiveFailuresRef'
                   \in {0, trajectoryConsecutiveFailuresRef}
      ]_vars

\* thirteen failed ticks in a row are counted and the loop is still running, the
\* joints moved by an earlier successful tick
C24_Witness ==
    /\ lastEvent = "trajectoryTick"
    /\ ~lastSolved
    /\ trajectoryRunning
    /\ trajectoryIntervalRef # 0
    /\ trajectoryConsecutiveFailuresRef = TRAJECTORY_MAX_CONSECUTIVE_FAILURES - 1
    /\ moves = MaxMoves

\* the live intervals of a kind
LiveTimers(kind) == {t \in timers : t.kind = kind}

\* C25: at most one hold interval and at most one trajectory interval are live,
\* each live interval's id is the one its ref holds, trajectoryRunning is true
\* exactly when the trajectory interval is live, and after the teardown no interval
\* is live.
C25_NoTimerLeak ==
    /\ Cardinality(LiveTimers("hold")) <= 1
    /\ Cardinality(LiveTimers("trajectory")) <= 1
    /\ \A t \in LiveTimers("hold") : t.id = holdIntervalRef
    /\ \A t \in LiveTimers("trajectory") : t.id = trajectoryIntervalRef
    /\ trajectoryRunning <=> LiveTimers("trajectory") # {}
    /\ disposed => timers = {}

\* the teardown found a hold interval live and cleared it
C25_Witness ==
    /\ lastEvent = "teardown"
    /\ disposed
    /\ clearedKinds = {"hold"}
    /\ timers = {}
    /\ holdIntervalRef = 0

\* C26: a handler runs a motion request only while a loaded robot is stored, which
\* is after the load has resolved and before the teardown; and a load that settles
\* after the teardown stores no robot, leaves the controls disabled and leaves the
\* pad status as it was.
C26_SolveOnlyWhileLoaded ==
    [][/\ (ranSolve' /\ lastEvent' # lastEvent)
             => /\ loadedRobotRef /\ loadedRobotRef'
                /\ loadState = "resolved"
                /\ ~disposed
       /\ ranSolve' => (loadedRobotRef' /\ loadState' = "resolved" /\ ~disposed')
       /\ (disposed /\ loadState = "pending" /\ loadState' # "pending")
             => /\ ~loadedRobotRef'
                /\ controlChain' = <<>>
                /\ ~controlsEnabled'
                /\ padStatusText' = padStatusText
       /\ disposed' => ~loadedRobotRef'
      ]_vars

\* the load resolved after the teardown
C26_Witness ==
    /\ lastEvent = "loadResolved"
    /\ loadState = "resolved"
    /\ disposed
    /\ ~loadedRobotRef
    /\ ~controlsEnabled

\* C27: while a loaded robot is stored, from the state right after the load on,
\* every joint of the control chain that is not continuous has its angle within
\* its declared bounds.
C27_LoadedAnglesWithinLimits ==
    loadedRobotRef
       => \A i \in 1..Len(controlChain) :
             controlChain[i].type # "continuous"
                => /\ controlChain[i].lowerLimit # Null
                         => controlChain[i].lowerLimit[1] <= controlChain[i].angle
                   /\ controlChain[i].upperLimit # Null
                         => controlChain[i].angle <= controlChain[i].upperLimit[1]

\* the control is the runtime counterpart of the joint: registered for it, its
\* motion node the joint's own
CounterpartOf(control, joint) ==
    /\ ControlOf(control, joint)
    /\ control.motionGroup = [parent |-> joint.parent, child |-> joint.child]

\* the root-to-end-effector path of the document loaded last
LoadedPath ==
    findJointPathToLink(parseUrdf(callArgs), parseUrdf(callArgs).rootLink,
                        END_EFFECTOR_LINK)[2]

\* C28: after a successful load every control of the chain is the counterpart of a
\* joint on the root-to-end-effector path, and no path joint has more than one
\* entry of the chain as its counterpart, whatever the joint names.
C28_ChainControlsOnPath ==
    (lastEvent = "loadFr3UrdfRobot" /\ callResult.ok)
       => /\ \A i \in 1..Len(callResult.controlChain) :
                \E k \in 1..Len(LoadedPath) :
                   CounterpartOf(callResult.controlChain[i], LoadedPath[k])
          /\ \A k \in 1..Len(LoadedPath) :
                Cardinality({i \in 1..Len(callResult.controlChain) :
                                CounterpartOf(callResult.controlChain[i],
                                              LoadedPath[k])}) <= 1

\* the joint is limited and sits at its upper limit
AtUpperLimit(joint) ==
    /\ joint.type # "continuous"
    /\ joint.upperLimit = Some(joint.angle)

\* the joint is limited and more than epsilon inside its limits
WellInsideLimits(joint) ==
    /\ joint.type # "continuous"
    /\ joint.lowerLimit # Null /\ joint.upperLimit # Null
    /\ joint.lowerLimit[1] + IK_JACOBIAN_EPSILON < joint.angle
    /\ joint.angle < joint.upperLimit[1] - IK_JACOBIAN_EPSILON

\* C29: the probe of a limited joint at its upper limit is clamped back to the
\* limit and its raw update is zero, and the iteration leaves that joint where it
\* is; a limited joint more than epsilon inside its limits is probed at its angle
\* plus epsilon.
C29_ProbeAtLimit ==
    /\ lastEvent = "jacobianProbe"
          => /\ AtUpperLimit(callResult.before[callResult.index])
                   => /\ callResult.probe.perturbedAngle
                            = callResult.before[callResult.index].angle
                      /\ callResult.probe.delta = 0
             /\ WellInsideLimits(callResult.before[callResult.index])
                   => callResult.probe.perturbedAngle
                         = callResult.before[callResult.index].angle
                              + IK_JACOBIAN_EPSILON
    /\ (lastEvent = "iteration" /\ callResult.pass.outcome # "converged")
          => \A i \in 1..Len(controlChain) :
                AtUpperLimit(callResult.before[i])
                   => controlChain[i].angle = callResult.before[i].angle

\* the only joint of a chain sits at its upper limit, the target lies below the
\* hand, within the joint's travel, and the iteration moves nothing
C29_Witness ==
    /\ lastEvent = "iteration"
    /\ Len(controlChain) = 1
    /\ AtUpperLimit(callResult.before[1])
    /\ callResult.before[1].pitch > 0
    /\ PoseError(getWorldPose(callResult.before), callArgs.target).z
          = -TRANSLATION_STEP_METERS
    /\ callResult.before[1].lowerLimit[1] * callResult.before[1].pitch
          < callArgs.target.z
    /\ callResult.pass.outcome = "stalled"

=============================================================================
